---- MODULE Spec2Model ----
(***************************************************************************)
(* A model of lua-in-js: the coroutine scheduler (Thread, lib/coroutine),  *)
(* the environment facade (createEnv and the module-level library tables)  *)
(* and the hybrid Table with its metatable dispatch.                       *)
(***************************************************************************)
EXTENDS Integers, Sequences, FiniteSets, TLC

VARIABLES status, gen, yctx, current, stack, pending, mainKnown, ev,
          envG, envLoaded, libs, randomSeed, obs,
          heap, tev, nops,
          inp, res

thVars == <<status, gen, yctx, current, stack, pending, mainKnown, ev>>
envVars == <<envG, envLoaded, libs, randomSeed, obs>>
tabVars == <<heap, tev, nops>>
\* the input given to a function of the program under study, and what it gave
funVars == <<inp, res>>
vars == <<thVars, envVars, tabVars, funVars>>
\* what the scheduler's operations leave alone
notThread == <<envVars, tabVars, funVars>>

(***************************************************************************)
(* Bounds.                                                                 *)
(***************************************************************************)
\* number of threads coroutine.create / coroutine.wrap may make
MaxThreads == 2

(***************************************************************************)
(* Host (JavaScript) values that cross the generator protocol.             *)
(* A value is <<tag, payload>>: an array of Lua values, one Lua number,    *)
(* or undefined.  Lua values are the numbers 0 (falsy for the host's ||)   *)
(* and 1.                                                                  *)
(***************************************************************************)
LuaVals == {0, 1}
ArgLists == {<<>>, <<0>>, <<1, 0>>}
Arr(s) == <<"arr", s>>
Num(n) == <<"num", <<n>>>>
Undef == <<"undef", <<>>>>

\* the host's truthiness, as used by `r.value || []`
Truthy(v) == v[1] = "arr" \/ (v[1] = "num" /\ v[2][1] # 0)
OrEmpty(v) == IF Truthy(v) THEN v ELSE Arr(<<>>)
\* the spread `...x` works on arrays only (strings are not modelled)
Iterable(v) == v[1] = "arr"
ensureArray(v) == IF v[1] = "arr" THEN v ELSE Arr(IF v[1] = "num" THEN v[2] ELSE <<>>)

(***************************************************************************)
(* The lowering of coroutine.yield(args).  generate() emits                *)
(* `yield [args]`; expression() appends `[0]` to every call used as one    *)
(* expression, which binds tighter than yield: `yield ([args][0])`.        *)
(* ctx = "list": statement, multiple assignment, spread position.          *)
(* ctx = "single": the call is consumed through expression().              *)
(***************************************************************************)
YieldCtx == {"list", "single"}
YieldOperand(ctx, vals) ==
    IF ctx = "list" THEN Arr(vals)
    ELSE IF vals = <<>> THEN Undef ELSE Num(vals[1])
\* the value of the yield expression is what gen.next(args) was given
YieldResult(ctx, args) == Arr(args)
\* what Lua prescribes for the same expression
LuaYieldResult(ctx, args) ==
    IF ctx = "list" THEN Arr(args)
    ELSE IF args = <<>> THEN Undef ELSE Num(args[1])

(***************************************************************************)
(* Errors.                                                                 *)
(***************************************************************************)
DeadMsg == "cannot resume dead coroutine"
BusyMsg == "TypeError: Generator is already running"
SpreadMsg == "TypeError: not iterable"
BodyMsgs == {"boom"}
HostMsgs == {"HostError"}
NoErr == [kind |-> "none", msg |-> ""]
LuaError(m) == [kind |-> "lua", msg |-> m]
HostError(m) == [kind |-> "host", msg |-> m]

(***************************************************************************)
(* Threads.  0 is Thread.main; 1..MaxThreads are made by create.           *)
(***************************************************************************)
Main == 0
Tid == 0..MaxThreads
Vias == {"resume", "wrap", "call"}

\* outcome of a call: a returned host value or a thrown error
Ret(v) == [kind |-> "ret", val |-> v, ok |-> TRUE, vals |-> <<>>, msg |-> ""]
Thrown(e) == [kind |-> e.kind, val |-> Undef, ok |-> FALSE, vals |-> <<>>, msg |-> e.msg]

\* lib/coroutine.ts resume: [true, ...THREAD.resume(...args)] in try/catch;
\* the catch clause keeps LuaError only
CatchesEverything(o) == TRUE
CatchesInResume(o) == o.kind = "lua"
CoroutineResume(o) ==
    IF o.kind = "ret"
    THEN IF Iterable(o.val)
         THEN [kind |-> "ret", val |-> Undef, ok |-> TRUE, vals |-> o.val[2], msg |-> ""]
         ELSE Thrown(HostError(SpreadMsg))
    ELSE IF CatchesInResume(o)
         THEN [kind |-> "ret", val |-> Undef, ok |-> FALSE, vals |-> <<>>, msg |-> o.msg]
         ELSE o

\* lib/coroutine.ts wrap: (...args) => thread.resume(...args), run by call()
CoroutineWrap(o) == IF o.kind = "ret" THEN Ret(ensureArray(o.val)) ELSE o

\* index.ts call: if (f instanceof Thread) return f.resume(...args)
CallThread(o) == o

Deliver(via, o) ==
    CASE via = "resume" -> CoroutineResume(o)
      [] via = "wrap" -> CoroutineWrap(o)
      [] OTHER -> CallThread(o)

(***************************************************************************)
(* Thread.resume, piece by piece (Thread.ts).                              *)
(***************************************************************************)
\* line 22: the only status resume refuses
ResumeRejects(s) == s = "dead"
\* lines 32 and 37: this.status = r.done ? 'dead' : 'suspended'
StatusIgnoresDone(done) == "suspended"
StatusAfterStep(done) == IF done THEN "dead" ELSE "suspended"
\* lines 33-34 and 38-39: this.last = r.value || []; return this.last
\* (last is read nowhere else: the model keeps it in the step's outcome only)
LastAfterStep(value) == OrEmpty(value)
\* line 27 sets 'running'; no catch clause touches the status when next() throws
StatusAfterThrow(s) == "running"
\* line 41 (finally): Thread.current = prev
KeepCurrent(prev, cur) == cur
RestoreCurrent(prev, cur) == prev

\* the event of the last step, kept for the properties
NoEv == [kind |-> "init", th |-> Main, via |-> "call", how |-> "",
         raw |-> Ret(Undef), out |-> Ret(Undef),
         cur0 |-> Main, status0 |-> "", gen0 |-> "",
         sent |-> <<>>, ctx |-> "list", args |-> <<>>, recv |-> Undef, want |-> Undef,
         first |-> FALSE]

PendingOf(o) == IF o.kind = "ret" THEN NoErr ELSE [kind |-> o.kind, msg |-> o.msg]

Known(t) == IF t = Main THEN mainKnown ELSE status[t] # "none"
Idle == pending.kind = "none"
\* the thread whose generator is executing (Main: the chunk itself)
Executing == IF stack = <<>> THEN Main ELSE Head(stack).th

ExitEv(t, via, how, raw, c0, s0, g0, sent, ctx) ==
    [NoEv EXCEPT !.kind = "exit", !.th = t, !.via = via, !.how = how, !.raw = raw,
                 !.out = Deliver(via, raw), !.cur0 = c0, !.status0 = s0, !.gen0 = g0,
                 !.sent = sent, !.ctx = ctx]

InitThread ==
    /\ status = [t \in Tid |-> IF t = Main THEN "running" ELSE "none"]
    /\ gen = [t \in Tid |-> "absent"]
    /\ yctx = [t \in Tid |-> "list"]
    /\ current = Main
    /\ stack = <<>>
    /\ pending = NoErr
    /\ mainKnown = FALSE
    /\ ev = NoEv

\* coroutine.create (and the create inside coroutine.wrap): new Thread(fn)
Create ==
    /\ UNCHANGED notThread
    /\ Idle
    /\ \E t \in 1..MaxThreads :
         /\ status[t] = "none"
         /\ \A u \in 1..(t - 1) : status[u] # "none"
         /\ status' = [status EXCEPT ![t] = "suspended"]
         /\ ev' = [NoEv EXCEPT !.kind = "create", !.th = t]
    /\ UNCHANGED <<gen, yctx, current, stack, pending, mainKnown>>

\* coroutine.running(): [Thread.current, Thread.current === Thread.main]
Running ==
    /\ UNCHANGED notThread
    /\ Idle
    /\ current = Main
    /\ ~mainKnown
    /\ mainKnown' = TRUE
    /\ ev' = [NoEv EXCEPT !.kind = "running", !.th = current]
    /\ UNCHANGED <<status, gen, yctx, current, stack, pending>>

\* resume of a thread line 22 refuses: throws before anything is assigned
ResumeDead(t, via) ==
    /\ UNCHANGED notThread
    /\ Idle /\ Known(t)
    /\ ResumeRejects(status[t])
    /\ LET raw == Thrown(LuaError(DeadMsg)) IN
         /\ ev' = ExitEv(t, via, "dead", raw, current, status[t], gen[t], <<>>, "list")
         /\ pending' = PendingOf(Deliver(via, raw))
    /\ UNCHANGED <<status, gen, yctx, current, stack, mainKnown>>

\* resume of a thread whose generator is on the host stack: next() throws TypeError
ResumeBusy(t, via) ==
    /\ UNCHANGED notThread
    /\ Idle /\ Known(t)
    /\ ~ResumeRejects(status[t])
    /\ gen[t] = "executing"
    /\ LET raw == Thrown(HostError(BusyMsg)) IN
         /\ status' = [status EXCEPT ![t] = StatusAfterThrow(status[t])]
         /\ current' = RestoreCurrent(current, t)
         /\ ev' = ExitEv(t, via, "busy", raw, current, status[t], gen[t], <<>>, "list")
         /\ pending' = PendingOf(Deliver(via, raw))
    /\ UNCHANGED <<gen, yctx, stack, mainKnown>>

\* resume of a thread whose generator has finished (by a throw), or of the main
\* thread, whose fn is the empty generator: next() gives {done: true, value: undefined}
ResumeFinished(t, via) ==
    /\ UNCHANGED notThread
    /\ Idle /\ Known(t)
    /\ ~ResumeRejects(status[t])
    /\ gen[t] = "completed" \/ (t = Main /\ gen[t] = "absent")
    /\ LET raw == Ret(LastAfterStep(Undef)) IN
         /\ status' = [status EXCEPT ![t] = StatusAfterStep(TRUE)]
         /\ gen' = [gen EXCEPT ![t] = "completed"]
         /\ current' = RestoreCurrent(current, t)
         /\ ev' = ExitEv(t, via, "finished", raw, current, status[t], gen[t], <<>>, "list")
         /\ pending' = PendingOf(Deliver(via, raw))
    /\ UNCHANGED <<yctx, stack, mainKnown>>

\* resume of a thread with body left to run: lines 25-27, then gen.next
ResumeEnter(t, via, args) ==
    /\ UNCHANGED notThread
    /\ Idle /\ Known(t)
    /\ t # Main
    /\ ~ResumeRejects(status[t])
    /\ gen[t] \in {"absent", "suspended"}
    /\ stack' = <<[th |-> t, prev |-> current, via |-> via, cur0 |-> current,
                   status0 |-> status[t], gen0 |-> gen[t]]>> \o stack
    /\ current' = t
    /\ status' = [status EXCEPT ![t] = "running"]
    /\ gen' = [gen EXCEPT ![t] = "executing"]
    /\ ev' = [NoEv EXCEPT !.kind = "enter", !.th = t, !.via = via, !.args = args,
                          !.cur0 = current, !.status0 = status[t], !.gen0 = gen[t],
                          !.first = (gen[t] = "absent"), !.ctx = yctx[t],
                          !.recv = IF gen[t] = "absent" THEN Arr(args)
                                   ELSE YieldResult(yctx[t], args),
                          !.want = IF gen[t] = "absent" THEN Arr(args)
                                   ELSE LuaYieldResult(yctx[t], args)]
    /\ UNCHANGED <<yctx, pending, mainKnown>>

\* the generator step ends: r = {done, value}; lines 32-34 / 37-39, then finally
BodyStep(done, value, how, sent, ctx) ==
    /\ UNCHANGED notThread
    /\ Idle
    /\ stack # <<>>
    /\ LET f == Head(stack)
           t == f.th
           raw == Ret(LastAfterStep(value)) IN
         /\ status' = [status EXCEPT ![t] = StatusAfterStep(done)]
         /\ gen' = [gen EXCEPT ![t] = IF done THEN "completed" ELSE "suspended"]
         /\ yctx' = [yctx EXCEPT ![t] = ctx]
         /\ current' = RestoreCurrent(f.prev, current)
         /\ stack' = Tail(stack)
         /\ ev' = ExitEv(t, f.via, how, raw, f.cur0, f.status0, f.gen0, sent, ctx)
         /\ pending' = PendingOf(Deliver(f.via, raw))
    /\ UNCHANGED mainKnown

BodyYield(vals, ctx) == BodyStep(FALSE, YieldOperand(ctx, vals), "yield", vals, ctx)

\* `return [vals]` (or the appended `return []`)
BodyReturn(vals) == BodyStep(TRUE, Arr(vals), "return", vals, "list")

\* an error leaves gen.next(): only the finally clause runs
BodyThrow(e) ==
    /\ UNCHANGED notThread
    /\ stack # <<>>
    /\ LET f == Head(stack)
           t == f.th
           raw == Thrown(e) IN
         /\ status' = [status EXCEPT ![t] = StatusAfterThrow(status[t])]
         /\ gen' = [gen EXCEPT ![t] = "completed"]
         /\ yctx' = [yctx EXCEPT ![t] = "list"]
         /\ current' = RestoreCurrent(f.prev, current)
         /\ stack' = Tail(stack)
         /\ ev' = ExitEv(t, f.via, "raise", raw, f.cur0, f.status0, f.gen0, <<>>, "list")
         /\ pending' = PendingOf(Deliver(f.via, raw))
    /\ UNCHANGED mainKnown

\* the body raises: error(m) (domain) or a host exception
BodyRaise(e) == Idle /\ BodyThrow(e)

\* an error thrown by something the body called propagates out of the body
BodyUnwind == ~Idle /\ BodyThrow(pending)

\* pcall in the executing code: catch (e) { return [false, e.toString()] }
Catch ==
    /\ UNCHANGED notThread
    /\ ~Idle
    /\ pending' = NoErr
    /\ ev' = [NoEv EXCEPT !.kind = "catch", !.th = Executing]
    /\ UNCHANGED <<status, gen, yctx, current, stack, mainKnown>>

\* the error leaves exec(): the host sees it and may run the next script
TopAbort ==
    /\ UNCHANGED notThread
    /\ ~Idle
    /\ stack = <<>>
    /\ pending' = NoErr
    /\ ev' = [NoEv EXCEPT !.kind = "abort", !.th = Main]
    /\ UNCHANGED <<status, gen, yctx, current, stack, mainKnown>>

NextThread ==
    \/ Create
    \/ Running
    \/ \E t \in Tid, via \in Vias : ResumeDead(t, via)
    \/ \E t \in Tid, via \in Vias : ResumeBusy(t, via)
    \/ \E t \in Tid, via \in Vias : ResumeFinished(t, via)
    \/ \E t \in Tid, via \in Vias, args \in ArgLists : ResumeEnter(t, via, args)
    \/ \E vals \in ArgLists, ctx \in YieldCtx : BodyYield(vals, ctx)
    \/ \E vals \in ArgLists : BodyReturn(vals)
    \/ \E m \in BodyMsgs : BodyRaise(LuaError(m))
    \/ \E m \in HostMsgs : BodyRaise(HostError(m))
    \/ BodyUnwind
    \/ Catch
    \/ TopAbort


(***************************************************************************)
(* Properties of the coroutine scheduler.                                  *)
(***************************************************************************)
IsExit == ev.kind = "exit"
IsEnter == ev.kind = "enter"

\* C1: Thread.current is restored on every exit path of resume: after a
\* resume call ends (yield, return, domain error, host error, dead thread),
\* by any route (coroutine.resume, wrap, call), current is what it was before
\* the call; nested resumes unwind in stack order, and current is the main
\* thread whenever no resume is in progress.
C1_CurrentRestored ==
    /\ IsExit => current = ev.cur0
    /\ current = Executing
    /\ \A i \in 1..Len(stack) :
         stack[i].prev = IF i = Len(stack) THEN Main ELSE stack[i + 1].th

\* a host error leaves an inner thread's body while an outer thread is resuming it
C1_Witness ==
    /\ IsExit /\ ev.how = "raise" /\ ev.raw.kind = "host"
    /\ stack # <<>> /\ ev.cur0 # Main /\ ev.th # ev.cur0

\* C2: a thread dies when its body raises: after the resume in which the
\* body raised (domain or host error) the status is dead, and every later
\* resume of it fails with 'cannot resume dead coroutine'.
C2_DiesWhenBodyRaises ==
    /\ IsExit /\ ev.how = "raise" => status[ev.th] = "dead"
    /\ IsExit /\ ev.th # Main /\ ev.gen0 = "completed" =>
         ev.raw.kind = "lua" /\ ev.raw.msg = DeadMsg

\* C3: resume requires status suspended: a resume of a thread whose status
\* is running is rejected, does not advance its generator and does not
\* change its status; a body is entered from status suspended only.
C3_ResumeRequiresSuspended ==
    /\ IsExit /\ ev.status0 = "running" =>
         /\ ev.raw.kind # "ret"
         /\ status[ev.th] = "running"
         /\ gen[ev.th] = ev.gen0
    /\ IsEnter => ev.status0 = "suspended"

\* C4: the main thread is perpetually running.
C4_MainAlwaysRunning == status[Main] = "running"

\* C5: the status follows the life cycle: a created thread is suspended and
\* has no generator yet; every thread whose body is executing is running;
\* after a step that ends at a yield it is suspended; after the step in which
\* the body returns it is dead; a resume of a dead thread raises 'cannot
\* resume dead coroutine', enters no body and leaves the thread dead.
C5_StatusLifeCycle ==
    /\ ev.kind = "create" => status[ev.th] = "suspended" /\ gen[ev.th] = "absent"
    /\ \A i \in 1..Len(stack) :
         status[stack[i].th] = "running" /\ gen[stack[i].th] = "executing"
    /\ IsExit /\ ev.how = "yield" => status[ev.th] = "suspended"
    /\ IsExit /\ ev.how = "return" => status[ev.th] = "dead"
    /\ IsExit /\ ev.status0 = "dead" =>
         /\ ev.how = "dead"
         /\ ev.raw = Thrown(LuaError(DeadMsg))
         /\ status[ev.th] = "dead"
         /\ gen[ev.th] = ev.gen0
    /\ IsEnter => ev.status0 # "dead"

\* a created thread that returned is resumed again
C5_Witness ==
    /\ IsExit /\ ev.how = "dead" /\ ev.th # Main
    /\ ev.status0 = "dead" /\ gen[ev.th] = "completed"

\* C6: values cross the yield/resume boundary unchanged: coroutine.resume on
\* a live thread returns true followed by exactly the values given to the
\* yield that ended the step (or the returned values), and the arguments of
\* a resume become the parameters (first resume) or the results of the yield
\* expression (later resumes), for list and for single-expression yields.
C6_ValuesCrossUnchanged ==
    /\ IsExit /\ ev.via = "resume" /\ ev.how \in {"yield", "return"} =>
         ev.out.kind = "ret" /\ ev.out.ok /\ ev.out.vals = ev.sent
    /\ IsEnter => ev.recv = ev.want

\* C7: coroutine.resume converts only domain errors into a result: a domain
\* error with message m gives [false, m]; a host error is not turned into a
\* value and propagates to the caller unchanged.
C7_OnlyDomainErrorsConverted ==
    IsExit /\ ev.via = "resume" =>
      /\ ev.raw.kind = "lua" =>
           /\ ev.out.kind = "ret" /\ ~ev.out.ok /\ ev.out.msg = ev.raw.msg
           /\ pending = NoErr
      /\ ev.raw.kind = "host" => ev.out = ev.raw /\ pending = HostError(ev.raw.msg)
      /\ ev.out.kind # "lua"
      /\ ev.out.kind = "host" => pending = HostError(ev.out.msg)

\* a host error raised by the body leaves coroutine.resume
C7_Witness ==
    /\ IsExit /\ ev.via = "resume" /\ ev.how = "raise"
    /\ ev.raw = Thrown(HostError("HostError"))
    /\ pending.kind = "host"

(***************************************************************************)
(* Environments (index.ts createEnv).  Two environments of one process.    *)
(* libMath is one module-level Table (lib/math.ts) that every createEnv    *)
(* hands to loadLib; getLibOS(cfg) builds a Table per environment; the     *)
(* host owns one Table per environment that it passes to loadLib /         *)
(* extendLib.  randomSeed is a module-level variable of lib/math.ts.       *)
(***************************************************************************)
Envs == {1, 2}
GNames == {"x", "math", "os", "my"}
LoadNames == {"math", "my"}
\* table objects
LibMath == 0
LibOS(e) == e
HostTable(e) == 10 + e
TableIds == {LibMath} \cup {LibOS(e) : e \in Envs} \cup {HostTable(e) : e \in Envs}
\* values of globals: nil, a number, a reference to a table
Nil == <<"nil", 0>>
NumV(n) == <<"num", n>>
TabV(id) == <<"tab", id>>
\* a table here has one field, foo; 0 stands for nil
FieldVals == {0, 1}

\* getRandom of lib/math.ts
LcgMul == 16807
LcgMod == 2147483647
NextSeed(seed) == (LcgMul * seed) % LcgMod
Seeds == {1, 2}
\* how many times math.random may advance a seed given to randomseed
MaxRandom == 2
RECURSIVE SeedsWithin(_)
SeedsWithin(k) ==
    IF k = 0 THEN Seeds
    ELSE SeedsWithin(k - 1) \cup {NextSeed(x) : x \in SeedsWithin(k - 1)}

\* createEnv, twice; the host's tables hold foo = 1
InitEnv ==
    /\ envG = [e \in Envs |-> [n \in GNames |->
                 CASE n = "math" -> TabV(LibMath)
                   [] n = "os" -> TabV(LibOS(e))
                   [] OTHER -> Nil]]
    /\ envLoaded = [e \in Envs |-> [n \in GNames |->
                 CASE n = "math" -> TabV(LibMath)
                   [] n = "os" -> TabV(LibOS(e))
                   [] OTHER -> Nil]]
    /\ libs = [id \in TableIds |-> IF id \in {HostTable(e) : e \in Envs} THEN 1 ELSE 0]
    /\ randomSeed = 1
    /\ obs = [env |-> 0, op |-> "init", val |-> 0]

\* what the environment's operations leave alone
envThreadFrame == UNCHANGED <<yctx, current, stack, pending, mainKnown, ev, tabVars, funVars>>

\* loadLib: _G.rawset(name, value); loaded.rawset(name, value)
LoadLibUpdate(e, n) ==
    /\ envG' = [envG EXCEPT ![e][n] = TabV(HostTable(e))]
    /\ envLoaded' = [envLoaded EXCEPT ![e][n] = TabV(HostTable(e))]
    /\ UNCHANGED libs

LoadLib(e, n) ==
    /\ LoadLibUpdate(e, n)
    /\ obs' = [env |-> e, op |-> "loadLib", val |-> 0]
    /\ UNCHANGED <<randomSeed, status, gen>>
    /\ envThreadFrame

\* extendLib: copies the fields of value into the Table the global holds,
\* or falls back to loadLib
ExtendLib(e, n) ==
    /\ LET lib == envG[e][n] IN
         IF lib[1] = "tab"
         THEN /\ libs' = [libs EXCEPT ![lib[2]] =
                            IF libs[HostTable(e)] # 0 THEN libs[HostTable(e)] ELSE @]
              /\ UNCHANGED <<envG, envLoaded>>
         ELSE LoadLibUpdate(e, n)
    /\ obs' = [env |-> e, op |-> "extendLib", val |-> 0]
    /\ UNCHANGED <<randomSeed, status, gen>>
    /\ envThreadFrame

\* a script `x = v`: $0.set reaches the root scope, which is _G.strValues
ExecSetGlobal(e, v) ==
    /\ envG' = [envG EXCEPT ![e]["x"] = IF v = 0 THEN Nil ELSE NumV(v)]
    /\ obs' = [env |-> e, op |-> "setGlobal", val |-> v]
    /\ UNCHANGED <<envLoaded, libs, randomSeed, status, gen>>
    /\ envThreadFrame

\* a script `n.foo = v`: Table.set on the table the global n holds
ExecSetField(e, n, v) ==
    /\ envG[e][n][1] = "tab"
    /\ libs' = [libs EXCEPT ![envG[e][n][2]] = v]
    /\ obs' = [env |-> e, op |-> "setField", val |-> v]
    /\ UNCHANGED <<envG, envLoaded, randomSeed, status, gen>>
    /\ envThreadFrame

\* a script `math.randomseed(s)` (the function, whatever table holds it)
ExecRandomSeed(e, s) ==
    /\ randomSeed' = s
    /\ obs' = [env |-> e, op |-> "randomseed", val |-> s]
    /\ UNCHANGED <<envG, envLoaded, libs, status, gen>>
    /\ envThreadFrame

\* a script `return math.random()`: getRandom advances the seed
ExecRandom(e) ==
    /\ randomSeed \in SeedsWithin(MaxRandom - 1)
    /\ randomSeed' = NextSeed(randomSeed)
    /\ obs' = [env |-> e, op |-> "random", val |-> NextSeed(randomSeed)]
    /\ UNCHANGED <<envG, envLoaded, libs, status, gen>>
    /\ envThreadFrame

\* a script `coroutine.resume(coroutine.running())` at top level: Thread.resume
\* on Thread.main, whose fn is the empty generator
ExecResumeMain(e) ==
    /\ stack = <<>> /\ current = Main
    /\ ~ResumeRejects(status[Main])
    /\ status' = [status EXCEPT ![Main] = StatusAfterStep(TRUE)]
    /\ gen' = [gen EXCEPT ![Main] = "completed"]
    /\ obs' = [env |-> e, op |-> "resumeMain", val |-> 0]
    /\ UNCHANGED <<envG, envLoaded, libs, randomSeed>>
    /\ envThreadFrame

NextEnv ==
    \/ \E e \in Envs, n \in LoadNames : LoadLib(e, n)
    \/ \E e \in Envs, n \in LoadNames : ExtendLib(e, n)
    \/ \E e \in Envs, v \in FieldVals : ExecSetGlobal(e, v)
    \/ \E e \in Envs, n \in GNames, v \in FieldVals : ExecSetField(e, n, v)
    \/ \E e \in Envs, s \in Seeds : ExecRandomSeed(e, s)
    \/ \E e \in Envs : ExecRandom(e)
    \/ \E e \in Envs : ExecResumeMain(e)

\* everything a script run in environment e can read
Deref(v) == IF v[1] = "tab" THEN <<"tab", libs[v[2]]>> ELSE v
View(e) ==
    [globals |-> [n \in GNames |-> Deref(envG[e][n])],
     nextRandom |-> NextSeed(randomSeed),
     mainStatus |-> status[Main]]

\* C8: environments are isolated: no operation performed on one environment
\* (scripts assigning globals or library fields, loadLib, extendLib,
\* math.randomseed, math.random, resuming coroutines) changes what a script
\* run in the other environment reads.
C8_EnvsIsolated ==
    [][\A e \in Envs : obs'.env # e => View(e)' = View(e)]_vars

(***************************************************************************)
(* The hybrid Table (Table.ts) and its metatable dispatch.                 *)
(* Lua values are <<tag, n>>: Nil, NumV(n), TabV(id), a host function, a   *)
(* Lua function (emitted as a generator function), a generator object.     *)
(* A table is [num, str, keys, values, meta]:                              *)
(*   num    the host array numValues; position i + 1 holds index i,        *)
(*          Hole where the array has no own property;                      *)
(*   str    strValues as the sequence of its own properties, in the        *)
(*          host's enumeration order;                                      *)
(*   keys, values   the aligned generic part (keys holds string forms);    *)
(*   meta   the metatable's id, 0 for null.                                *)
(***************************************************************************)
HostFn == <<"hfn", 0>>
LuaFn == <<"lfn", 0>>
GenObj == <<"gen", 0>>
Hole == <<"hole", 0>>
IsFunction(v) == v[1] \in {"hfn", "lfn"}

\* keys: [t, n, s] with t the type, n the number, s the string
KNil == [t |-> "nil", n |-> 0, s |-> ""]
KNaN == [t |-> "nan", n |-> 0, s |-> ""]
KNum(n) == [t |-> "num", n |-> n, s |-> ""]
KStr(x) == [t |-> "str", n |-> 0, s |-> x]
KBool(b) == [t |-> "bool", n |-> IF b THEN 1 ELSE 0, s |-> ""]

\* the host's `${n}` for the integers the model uses
NumStr(n) ==
    CASE n = 0 -> "0" [] n = 1 -> "1" [] n = 2 -> "2" [] n = 3 -> "3"
      [] n = 4 -> "4" [] n = 10 -> "10" [] n = -1 -> "-1" [] OTHER -> "?"

\* utils.ts coerceToString, reached through Table.ts tostring
coerceToString(k) ==
    CASE k.t = "str" -> k.s
      [] k.t = "nil" -> "nil"
      [] k.t = "nan" -> "nan"
      [] k.t = "num" -> NumStr(k.n)
      [] OTHER -> IF k.n = 1 THEN "true" ELSE "false"

\* `key > 0 && key % 1 === 0` on a key whose typeof is 'number' (NaN > 0 is false)
IsArrayIndex(k) == k.t = "num" /\ k.n > 0

EmptyTable == [num |-> <<Nil>>, str |-> <<>>, keys |-> <<>>, values |-> <<>>, meta |-> 0]

\* position of x in sequence q, 0 when absent (the host's indexOf + 1)
RECURSIVE IndexFrom(_, _, _)
IndexFrom(q, x, i) ==
    IF i > Len(q) THEN 0 ELSE IF q[i] = x THEN i ELSE IndexFrom(q, x, i + 1)
IndexOf(q, x) == IndexFrom(q, x, 1)

StrNames(T) == [i \in 1..Len(T.str) |-> T.str[i].k]
HasOwnStr(T, x) == IndexOf(StrNames(T), x) # 0

\* the host's reading of array index i: undefined for a hole or past the end
NumAt(T, i) ==
    IF i + 1 <= Len(T.num) /\ T.num[i + 1] # Hole THEN T.num[i + 1] ELSE Nil

\* Table.rawget
GenericGet(T, k) ==
    LET i == IndexOf(T.keys, coerceToString(k)) IN
      IF i = 0 THEN Nil ELSE T.values[i]
rawget(T, k) ==
    IF k.t = "str" /\ HasOwnStr(T, k.s)
    THEN T.str[IndexOf(StrNames(T), k.s)].v
    ELSE IF IsArrayIndex(k) THEN NumAt(T, k.n)
    ELSE GenericGet(T, k)

\* the host's own-property order: canonical array indices ascending, then the
\* other names in the order they were added
StrIndex(x) == CASE x = "2" -> 2 [] x = "10" -> 10 [] OTHER -> -1
RECURSIVE InsertIndexName(_, _, _)
InsertIndexName(q, e, i) ==
    IF i > Len(q) \/ StrIndex(q[i].k) = -1 \/ StrIndex(q[i].k) > StrIndex(e.k)
    THEN SubSeq(q, 1, i - 1) \o <<e>> \o SubSeq(q, i, Len(q))
    ELSE InsertIndexName(q, e, i + 1)
StrPut(q, x, v) ==
    LET names == [i \in 1..Len(q) |-> q[i].k]
        i == IndexOf(names, x) IN
      IF i # 0 THEN [q EXCEPT ![i] = [k |-> x, v |-> v]]
      ELSE IF StrIndex(x) # -1 THEN InsertIndexName(q, [k |-> x, v |-> v], 1)
      ELSE Append(q, [k |-> x, v |-> v])

\* the host's `a[i] = v`: the array grows with holes
NumPut(a, i, v) ==
    IF i + 1 <= Len(a) THEN [a EXCEPT ![i + 1] = v]
    ELSE a \o [j \in 1..(i - Len(a)) |-> Hole] \o <<v>>

\* Table.rawset: no key is refused
rawset(T, k, v) ==
    IF k.t = "str" THEN [T EXCEPT !.str = StrPut(T.str, k.s, v)]
    ELSE IF IsArrayIndex(k) THEN [T EXCEPT !.num = NumPut(T.num, k.n, v)]
    ELSE LET K == coerceToString(k)
             i == IndexOf(T.keys, K) IN
           IF i # 0 THEN [T EXCEPT !.values[i] = v]
           ELSE [T EXCEPT !.values = Append(T.values, v), !.keys = Append(T.keys, K)]

\* outcomes of get / set: a value, a thrown error, and the function that was
\* called with its arguments
NoCall == [fn |-> Nil, self |-> 0, key |-> KNil, arg |-> Nil]
OutVal(v) == [kind |-> "val", val |-> v, msg |-> "", call |-> NoCall]
OutErr(kind, m) == [kind |-> kind, val |-> Nil, msg |-> m, call |-> NoCall]
StackMsg == "RangeError: Maximum call stack size exceeded"

\* what the functions of the model return: a host function returns the array
\* [7, 8]; a Lua function `return 7, 8` is a generator function, and calling
\* it runs nothing and returns a generator object
FnResults == <<NumV(7), NumV(8)>>
CallFunction(f) == IF f[1] = "hfn" THEN Arr(FnResults) ELSE GenObj
\* Table.get line 73: v instanceof Array ? v[0] : v
FirstOfArray(r) == IF r[1] = "arr" THEN r[2][1] ELSE r
\* what Lua prescribes: the first value the function returns
LuaFirstResult(f) == FnResults[1]

\* the host's truthiness of a Lua value (`if (mm)`)
TruthyVal(v) == v[1] # "nil" /\ v # NumV(0)

\* Table.get; busy holds the calls in progress: re-entering one of them never
\* returns in the host (the stack overflows)
RECURSIVE TableGet(_, _, _, _)
TableGet(h, t, k, busy) ==
    IF <<t, k>> \in busy THEN OutErr("host", StackMsg)
    ELSE
    LET value == rawget(h[t], k) IN
      IF value = Nil /\ h[t].meta # 0
      THEN LET mmO == TableGet(h, h[t].meta, KStr("__index"), busy \cup {<<t, k>>})
               mm == mmO.val IN
             IF mmO.kind # "val" THEN mmO
             ELSE IF mm[1] = "tab" THEN TableGet(h, mm[2], k, busy \cup {<<t, k>>})
             ELSE IF IsFunction(mm)
                  THEN [OutVal(FirstOfArray(CallFunction(mm))) EXCEPT
                          !.call = [fn |-> mm, self |-> t, key |-> k, arg |-> Nil]]
             ELSE OutVal(value)
      ELSE OutVal(value)

\* Table.set; the result is [heap, out]
RECURSIVE TableSet(_, _, _, _, _)
TableSet(h, t, k, v, busy) ==
    IF <<t, k>> \in busy THEN [heap |-> h, out |-> OutErr("host", StackMsg)]
    ELSE
    LET mmO == IF h[t].meta = 0 THEN OutVal(Nil)
               ELSE TableGet(h, h[t].meta, KStr("__newindex"), {})
        mm == mmO.val
        plain == [heap |-> [h EXCEPT ![t] = rawset(h[t], k, v)], out |-> OutVal(Nil)] IN
      IF mmO.kind # "val" THEN [heap |-> h, out |-> mmO]
      ELSE IF TruthyVal(mm) /\ rawget(h[t], k) = Nil
           THEN IF mm[1] = "tab" THEN TableSet(h, mm[2], k, v, busy \cup {<<t, k>>})
                ELSE IF IsFunction(mm)
                     THEN [heap |-> h,
                           out |-> [OutVal(CallFunction(mm)) EXCEPT
                                      !.call = [fn |-> mm, self |-> t, key |-> k, arg |-> v]]]
                ELSE plain
           ELSE plain

\* lib/globals.ts rawset: refuses an undefined index only
BaseRawsetRefuses(k) == k.t = "nil"
BaseRawset(h, t, k, v) ==
    IF BaseRawsetRefuses(k)
    THEN [heap |-> h, out |-> OutErr("lua", "table index is nil")]
    ELSE [heap |-> [h EXCEPT ![t] = rawset(h[t], k, v)], out |-> OutVal(TabV(t))]

(***************************************************************************)
(* Programs over three tables: a receiver, a second data table, and the    *)
(* table used as metatable.  tev is the last operation: its arguments, the *)
(* heap it started from and its outcome.                                   *)
(***************************************************************************)
MaxOps == 1

TabR == 1
TabD == 2
TabM == 3
Tables == {TabR, TabD, TabM}
DataTables == {TabR, TabD}

DataKeys == {KStr("a"), KNum(1), KNil, KNaN}
DataVals == {Nil, NumV(1)}
\* what a script may have put under __index / __newindex
MetaVals == {Nil, TabV(TabD), TabV(TabR), HostFn, LuaFn}
\* what a data table may hold at the start
Contents == {<<>>, <<KStr("a")>>, <<KNum(1)>>}

RECURSIVE Filled(_, _)
Filled(T, ks) ==
    IF ks = <<>> THEN T ELSE Filled(rawset(T, Head(ks), NumV(2)), Tail(ks))

NoTev == [op |-> "none", t |-> 0, k |-> KNil, v |-> Nil, out |-> OutVal(Nil),
          pre |-> <<>>]

InitTable ==
    /\ \E cr \in Contents, cd \in Contents, mr \in {0, TabM}, md \in {0, TabM},
          ix \in MetaVals, nx \in MetaVals :
         heap = [t \in Tables |->
                   CASE t = TabR -> [Filled(EmptyTable, cr) EXCEPT !.meta = mr]
                     [] t = TabD -> [Filled(EmptyTable, cd) EXCEPT !.meta = md]
                     [] OTHER -> rawset(rawset(EmptyTable, KStr("__index"), ix),
                                        KStr("__newindex"), nx)]
    /\ tev = NoTev
    /\ nops = 0

\* what the table operations leave alone
notTable == <<thVars, envVars, funVars>>

TevOf(op, t, k, v, out) ==
    [op |-> op, t |-> t, k |-> k, v |-> v, out |-> out, pre |-> heap]

\* `t[k] = v` in a script, lowered to t.set(k, v) (MemExpr.set)
ExecAssign(t, k, v) ==
    /\ nops < MaxOps
    /\ LET r == TableSet(heap, t, k, v, {}) IN
         /\ heap' = r.heap
         /\ tev' = TevOf("set", t, k, v, r.out)
    /\ nops' = nops + 1
    /\ UNCHANGED notTable

\* Table.rawset called directly: a constructor field `{[k] = v}`, or the host
ExecTableRawset(t, k, v) ==
    /\ nops < MaxOps
    /\ heap' = [heap EXCEPT ![t] = rawset(heap[t], k, v)]
    /\ tev' = TevOf("rawset", t, k, v, OutVal(Nil))
    /\ nops' = nops + 1
    /\ UNCHANGED notTable

\* rawset(t, k, v) in a script: the base function
ExecBaseRawset(t, k, v) ==
    /\ nops < MaxOps
    /\ LET r == BaseRawset(heap, t, k, v) IN
         /\ heap' = r.heap
         /\ tev' = TevOf("baserawset", t, k, v, r.out)
    /\ nops' = nops + 1
    /\ UNCHANGED notTable

\* `t[k]` in a script, lowered to t.get(k)
ExecIndex(t, k) ==
    /\ nops < MaxOps
    /\ heap' = heap
    /\ tev' = TevOf("get", t, k, Nil, TableGet(heap, t, k, {}))
    /\ nops' = nops + 1
    /\ UNCHANGED notTable

NextTable ==
    \/ \E t \in DataTables, k \in DataKeys, v \in DataVals : ExecAssign(t, k, v)
    \/ \E t \in DataTables, k \in DataKeys, v \in DataVals : ExecTableRawset(t, k, v)
    \/ \E t \in DataTables, k \in DataKeys, v \in DataVals : ExecBaseRawset(t, k, v)
    \/ \E t \in DataTables, k \in DataKeys : ExecIndex(t, k)

IsWrite == tev.op \in {"set", "rawset", "baserawset"}
BadKeyMsg(k) == IF k.t = "nil" THEN "table index is nil" ELSE "table index is NaN"

\* C9: a nil or NaN key can never be assigned: Table.set, Table.rawset, the
\* rawset base function and the lowered assignment t[k] = v, given k = nil or
\* k = NaN, raise the domain error 'table index is nil' / 'table index is NaN'
\* and leave the table's contents unchanged.
C9_NilNaNKeyRefused ==
    (IsWrite /\ tev.k \in {KNil, KNaN}) =>
        /\ tev.out.kind = "lua"
        /\ tev.out.msg = BadKeyMsg(tev.k)
        /\ heap = tev.pre

\* the metamethod an operation of tev consulted, Nil without a metatable
MetaOf(name) ==
    IF tev.pre[tev.t].meta = 0 THEN Nil
    ELSE TableGet(tev.pre, tev.pre[tev.t].meta, KStr(name), {}).val
WasPresent == rawget(tev.pre[tev.t], tev.k) # Nil
OwnPart(T) == <<T.num, T.str, T.keys, T.values>>

\* C10: metamethods take effect only for absent keys. When rawget(k) is
\* present, get returns that value and calls nothing, and set is the rawset on
\* the receiver. When rawget(k) is absent and the metamethod is a table or a
\* function, get is the get on the __index table, or the first result of the
\* function called with (self, k); set is the set on the __newindex table, or
\* the call of the function; and set leaves the receiver's own parts unchanged.
C10_MetamethodsOnlyWhenAbsent ==
    /\ (tev.op = "get" /\ WasPresent) =>
          tev.out = OutVal(rawget(tev.pre[tev.t], tev.k))
    /\ (tev.op = "set" /\ WasPresent) =>
          /\ heap = [tev.pre EXCEPT ![tev.t] = rawset(tev.pre[tev.t], tev.k, tev.v)]
          /\ tev.out.call = NoCall
    /\ (tev.op = "get" /\ ~WasPresent /\ MetaOf("__index")[1] = "tab"
          /\ MetaOf("__index")[2] # tev.t) =>
          tev.out = TableGet(tev.pre, MetaOf("__index")[2], tev.k, {})
    /\ (tev.op = "get" /\ ~WasPresent /\ IsFunction(MetaOf("__index"))) =>
          /\ tev.out.call = [fn |-> MetaOf("__index"), self |-> tev.t,
                             key |-> tev.k, arg |-> Nil]
          /\ tev.out.val = LuaFirstResult(MetaOf("__index"))
    /\ (tev.op = "set" /\ ~WasPresent /\ MetaOf("__newindex")[1] = "tab"
          /\ MetaOf("__newindex")[2] # tev.t) =>
          /\ heap = TableSet(tev.pre, MetaOf("__newindex")[2], tev.k, tev.v, {}).heap
          /\ OwnPart(heap[tev.t]) = OwnPart(tev.pre[tev.t])
    /\ (tev.op = "set" /\ ~WasPresent /\ IsFunction(MetaOf("__newindex"))) =>
          /\ tev.out.call = [fn |-> MetaOf("__newindex"), self |-> tev.t,
                             key |-> tev.k, arg |-> tev.v]
          /\ OwnPart(heap[tev.t]) = OwnPart(tev.pre[tev.t])

(***************************************************************************)
(* The array part as the host array it is: length, holes, splice, push,    *)
(* delete.  Position i + 1 of the sequence is index i of the array.        *)
(***************************************************************************)
\* largest array index a program of the model reaches
MaxIdx == 3

Min2(a, b) == IF a < b THEN a ELSE b
Max2(a, b) == IF a > b THEN a ELSE b

\* hasOwnProperty(vals, i)
Own(a, i) == i >= 0 /\ i + 1 <= Len(a) /\ a[i + 1] # Hole
\* vals[i]: undefined for a hole and outside the array
ArrAt(a, i) == IF Own(a, i) THEN a[i + 1] ELSE Nil
\* the start index splice computes from its first argument
SpliceStart(a, pos) == IF pos < 0 THEN Max2(Len(a) + pos, 0) ELSE Min2(pos, Len(a))
\* vals.splice(pos, 0, x): holes move with the elements
SpliceIn(a, pos, x) ==
    LET st == SpliceStart(a, pos) IN
      SubSeq(a, 1, st) \o <<x>> \o SubSeq(a, st + 1, Len(a))
\* vals.splice(pos, 1): the array without the element, and the element
SpliceOut(a, pos) ==
    LET st == SpliceStart(a, pos) IN
      SubSeq(a, 1, st) \o SubSeq(a, st + 2, Len(a))
SpliceRemoved(a, pos) == ArrAt(a, SpliceStart(a, pos))
\* delete vals[i]
DeleteAt(a, i) == IF i >= 0 /\ i + 1 <= Len(a) THEN [a EXCEPT ![i + 1] = Hole] ELSE a

\* getn, lines 212-221: j counts the own properties 1, 2, ... without a gap
RECURSIVE CountOwn(_, _)
CountOwn(a, j) == IF Own(a, j + 1) THEN CountOwn(a, j + 1) ELSE j
\* the search cut short after its first probe: a mutation of lines 229-237
SearchOneProbe(a, i, j) == IF j - i > 1 THEN (i + j) \div 2 ELSE i
\* getn, lines 226-238: the binary search of ltable.c between i and j
RECURSIVE BorderSearch(_, _, _)
BorderSearch(a, i, j) ==
    IF j - i > 1
    THEN LET m == (i + j) \div 2 IN
           IF ArrAt(a, m) = Nil THEN BorderSearch(a, i, m) ELSE BorderSearch(a, m, j)
    ELSE i
\* getn without the search: the mutation of line 224
GetnNoSearch(a) == CountOwn(a, 0)
getn(a) ==
    LET j == CountOwn(a, 0) IN
      IF j > 0 /\ ArrAt(a, j) = Nil THEN BorderSearch(a, 0, j) ELSE j

\* Table.insert(...values): numValues.push
RECURSIVE TablePush(_, _)
TablePush(T, vs) ==
    IF vs = <<>> THEN T
    ELSE TablePush([T EXCEPT !.num = Append(T.num, Head(vs))], Tail(vs))

\* table.insert(table, pos, value): a2 and a3 are the second and third
\* argument as passed (a3 = Nil for the two-argument call)
InsertPos(T, a2, a3) == IF a3 = Nil THEN Len(T.num) ELSE a2[2]
InsertValue(a2, a3) == IF a3 = Nil THEN a2 ELSE a3
TableInsert(h, t, a2, a3) ==
    LET POS == InsertPos(h[t], a2, a3)
        h1 == [h EXCEPT ![t].num = SpliceIn(h[t].num, POS, Nil)] IN
      TableSet(h1, t, KNum(POS), InsertValue(a2, a3), {})

\* table.remove, lines 116-120: the nils from POS up to max become holes
RECURSIVE DeleteRun(_, _, _)
DeleteRun(a, i, max) ==
    IF i < max /\ ArrAt(a, i) = Nil THEN DeleteRun(DeleteAt(a, i), i + 1, max) ELSE a
\* table.remove(table, pos): pos = Nil for the one-argument call
RemovePos(T, pos) == IF pos = Nil THEN getn(T.num) ELSE pos[2]
RemoveReturns(T, pos) == RemovePos(T, pos) > getn(T.num) \/ RemovePos(T, pos) < 0
TableRemove(h, t, pos) ==
    LET T == h[t]
        POS == RemovePos(T, pos) IN
      IF RemoveReturns(T, pos) THEN [heap |-> h, out |-> OutVal(Nil)]
      ELSE [heap |-> [h EXCEPT ![t].num =
                        DeleteRun(SpliceOut(T.num, POS), POS, getn(T.num))],
            out |-> OutVal(SpliceRemoved(T.num, POS))]

\* ipairsIterator driven by the generic for: the pairs the loop body sees
RECURSIVE IpairsFrom(_, _)
IpairsFrom(a, index) ==
    LET nextIndex == index + 1 IN
      IF ~TruthyVal(ArrAt(a, nextIndex)) THEN <<>>
      ELSE <<<<nextIndex, ArrAt(a, nextIndex)>>>> \o IpairsFrom(a, nextIndex)

(***************************************************************************)
(* Programs over the array part of one table, without metatable: table     *)
(* constructors, indexed assignment, table.insert, table.remove, the       *)
(* length operator and ipairs.  tev records the last operation.            *)
(***************************************************************************)
\* nil, a number that is falsy for the host, a number that is not
ArrVals == {Nil, NumV(0), NumV(1)}
\* the positions Lua allows for table.insert on the longest array
Positions == 1..(MaxIdx + 1)

InitArr ==
    /\ heap = [t \in {TabR} |-> EmptyTable]
    /\ tev = NoTev
    /\ nops = 0

\* the array stays within the indices of the model
InRange(h) == Len(h[TabR].num) <= MaxIdx + 1

\* the record of an operation on the array part (the heap before it is not kept)
ArrEv(op, k, v, out) == [TevOf(op, TabR, k, v, out) EXCEPT !.pre = <<>>]

\* `t = {}`: new Table()
ArrNew ==
    /\ heap' = [heap EXCEPT ![TabR] = EmptyTable]
    /\ tev' = ArrEv("new", KNil, Nil, OutVal(Nil))
    /\ UNCHANGED <<nops, notTable>>

\* t.insert(v): a positional field of a table constructor, or the host
ArrPush(v) ==
    /\ LET h == [heap EXCEPT ![TabR] = TablePush(heap[TabR], <<v>>)] IN
         /\ InRange(h)
         /\ heap' = h
         /\ tev' = ArrEv("push", KNil, v, OutVal(Nil))
    /\ UNCHANGED <<nops, notTable>>

\* `t[i] = v`
ArrAssign(i, v) ==
    /\ LET r == TableSet(heap, TabR, KNum(i), v, {}) IN
         /\ heap' = r.heap
         /\ tev' = ArrEv("set", KNum(i), v, r.out)
    /\ UNCHANGED <<nops, notTable>>

\* `table.insert(t, v)`
ArrInsert(v) ==
    /\ LET r == TableInsert(heap, TabR, v, Nil) IN
         /\ InRange(r.heap)
         /\ heap' = r.heap
         /\ tev' = ArrEv("insert", KNil, v, r.out)
    /\ UNCHANGED <<nops, notTable>>

\* `table.insert(t, pos, v)`; with v = nil the call is taken for the
\* two-argument one and appends the number pos, so pos is 1 then to keep the
\* stored values within ArrVals
ArrInsertAt(pos, v) ==
    /\ v = Nil => pos = 1
    /\ LET r == TableInsert(heap, TabR, NumV(pos), v) IN
         /\ InRange(r.heap)
         /\ heap' = r.heap
         /\ tev' = ArrEv("insertAt", KNum(pos), v, r.out)
    /\ UNCHANGED <<nops, notTable>>

\* `table.remove(t)`
ArrRemove ==
    /\ LET r == TableRemove(heap, TabR, Nil) IN
         /\ heap' = r.heap
         /\ tev' = ArrEv("remove", KNil, Nil, r.out)
    /\ UNCHANGED <<nops, notTable>>

\* `table.remove(t, pos)`
ArrRemoveAt(pos) ==
    /\ LET r == TableRemove(heap, TabR, NumV(pos)) IN
         /\ heap' = r.heap
         /\ tev' = ArrEv("removeAt", KNum(pos), Nil, r.out)
    /\ UNCHANGED <<nops, notTable>>

\* `#t`: the len operator on a table without __len
ArrLen ==
    /\ heap' = heap
    /\ tev' = ArrEv("len", KNil, Nil, OutVal(NumV(getn(heap[TabR].num))))
    /\ UNCHANGED <<nops, notTable>>

\* `for i, v in ipairs(t) do ... end`: out holds the pairs the body was given
ArrIpairs ==
    /\ heap' = heap
    /\ tev' = ArrEv("ipairs", KNil, Nil,
                    OutVal(<<"list", IpairsFrom(heap[TabR].num, 0)>>))
    /\ UNCHANGED <<nops, notTable>>

NextArr ==
    \/ ArrNew
    \/ \E v \in ArrVals : ArrPush(v)
    \/ \E i \in 1..MaxIdx, v \in ArrVals : ArrAssign(i, v)
    \/ \E v \in ArrVals : ArrInsert(v)
    \/ \E pos \in Positions, v \in ArrVals : ArrInsertAt(pos, v)
    \/ ArrRemove
    \/ \E pos \in Positions : ArrRemoveAt(pos)
    \/ ArrLen
    \/ ArrIpairs

\* the array part the last operation left
PostArr == heap[TabR].num
\* n is a border of a: n = 0 or a[n] is present, and a[n + 1] is absent
IsBorder(a, n) == (n = 0 \/ ArrAt(a, n) # Nil) /\ ArrAt(a, n + 1) = Nil
LenResult == tev.out.val[2]

\* C11: the length of a table without __len is the largest n such that
\* numValues[n] is present and numValues[n+1] is absent, for every content of
\* the array part (nils in the middle or at the end included).
C11_LengthIsLargestBorder ==
    tev.op = "len" =>
        /\ IsBorder(PostArr, LenResult)
        /\ \A n \in 1..Len(PostArr) :
             (ArrAt(PostArr, n) # Nil /\ ArrAt(PostArr, n + 1) = Nil) => n <= LenResult

\* C11, as the code has it: the length is a border of the array part (0, or an
\* index holding a value, followed by an absent index), found by binary
\* search when the last index of the gap-free run of entries holds nil; it is
\* the number of elements when the array part holds no nil; with nils inside
\* it need not be the largest border.
C11_LengthIsABorder ==
    tev.op = "len" =>
        /\ IsBorder(PostArr, LenResult)
        /\ (\A n \in 1..(Len(PostArr) - 1) : ArrAt(PostArr, n) # Nil) =>
              LenResult = Max2(Len(PostArr) - 1, 0)

\* the length of {nil, 1, nil}: the search answers 0, the largest border is 2
C11_Witness ==
    /\ tev.op = "len"
    /\ PostArr = <<Nil, Nil, NumV(1), Nil>>
    /\ LenResult = 0

\* the search of getn between i and j is over within fuel probes
RECURSIVE SearchEnds(_, _, _, _)
SearchEnds(a, i, j, fuel) ==
    IF j - i <= 1 THEN TRUE
    ELSE IF fuel = 0 THEN FALSE
    ELSE IF ArrAt(a, (i + j) \div 2) = Nil
         THEN SearchEnds(a, i, (i + j) \div 2, fuel - 1)
         ELSE SearchEnds(a, (i + j) \div 2, j, fuel - 1)
\* values are present exactly at the indices 1..n of a
ExactlyUpTo(a, n) == \A k \in 1..Len(a) : ArrAt(a, k) # Nil <=> k <= n

\* C29: getn always returns a border of the array part: for every reachable
\* content of numValues (holes, explicitly stored nils, present values that
\* the host takes for false) the result r satisfies (r = 0 or numValues[r] is
\* present) and numValues[r+1] is absent, the binary search terminates, and
\* r = n whenever values are present exactly at the indices 1..n.
C29_GetnReturnsBorder ==
    tev.op = "len" =>
        /\ IsBorder(PostArr, LenResult)
        /\ SearchEnds(PostArr, 0, CountOwn(PostArr, 0), Len(PostArr))
        /\ \A n \in 0..Len(PostArr) : ExactlyUpTo(PostArr, n) => LenResult = n

\* the length of {0, 1, nil}: the run of entries ends in a stored nil, the
\* search runs and answers 2
C29_Witness ==
    /\ tev.op = "len"
    /\ PostArr = <<Nil, NumV(0), NumV(1), Nil>>
    /\ LenResult = 2

\* what a script reads at index i of the table before / after the step
ReadBefore(i) == ArrAt(heap[TabR].num, i)
ReadAfter(i) == ArrAt(heap'[TabR].num, i)
Indices == 1..(MaxIdx + 2)

\* table.insert(t, v) as Lua has it: v at #t + 1, nothing else changes
AppendsAtLength ==
    tev'.op = "insert" =>
        LET n == getn(heap[TabR].num) IN
          /\ ReadAfter(n + 1) = tev'.v
          /\ \A i \in Indices \ {n + 1} : ReadAfter(i) = ReadBefore(i)
\* table.insert(t, pos, v) as Lua has it: v at pos, the elements from pos on
\* one index up, the elements below pos unchanged
ShiftsFromPos ==
    tev'.op = "insertAt" =>
        LET pos == tev'.k.n IN
          /\ ReadAfter(pos) = tev'.v
          /\ \A i \in Indices : i < pos => ReadAfter(i) = ReadBefore(i)
          /\ \A i \in Indices : i >= pos /\ i + 1 \in Indices =>
                ReadAfter(i + 1) = ReadBefore(i)

\* C12: table.insert places elements as in Lua: table.insert(t, v) stores v
\* at index #t + 1 and changes no other index; table.insert(t, pos, v) moves
\* every element at an index i >= pos to i + 1 and stores v at pos, leaving
\* the indices below pos unchanged.
C12_InsertAsInLua == [][AppendsAtLength /\ ShiftsFromPos]_vars

\* the first index from i on at which a script reads nil
RECURSIVE FirstNilFrom(_, _)
FirstNilFrom(a, i) == IF ArrAt(a, i) = Nil THEN i ELSE FirstNilFrom(a, i + 1)

\* C14: ipairs(t) iterates over (1, t[1]), (2, t[2]), ... up to, and not
\* including, the first index whose value is nil: every index below the first
\* nil is visited with its value, whatever the value is (false, 0 and the
\* empty string included).
C14_IpairsUpToFirstNil ==
    tev.op = "ipairs" =>
        tev.out.val[2] = [i \in 1..(FirstNilFrom(PostArr, 1) - 1) |-> <<i, ArrAt(PostArr, i)>>]

\* C21: index 0 of the array part stays the reserved sentinel: after any sequence
\* of insertions, assignments and removals numValues[0] holds no value, and a
\* value appended by insert is readable at a positive integer index.
C21_SentinelReserved ==
    /\ ArrAt(PostArr, 0) = Nil
    /\ (tev.op \in {"push", "insert"} /\ tev.v # Nil) =>
         \E k \in 1..(MaxIdx + 1) : ArrAt(PostArr, k) = tev.v

(***************************************************************************)
(* next and the pairs traversal (lib/globals.ts).  The input is a program  *)
(* of assignments t[k] = v on a new table without metatable; the program   *)
(* is run and the table traversed with the generic for.                    *)
(***************************************************************************)
\* number of assignments of a program
MaxProg == 3
\* more visits than any traversal of the model needs: one that takes them all
\* does not end
MaxVisits == 8

PairKeys ==
    {KNum(1), KNum(2), KStr("a"), KStr("10"), KStr("2"), KStr("true"), KBool(TRUE), KNum(0)}
PairVals == {Nil, NumV(1)}
Programs == UNION {[1..n -> [k : PairKeys, v : PairVals]] : n \in 1..MaxProg}

\* the table a program builds
RECURSIVE RunProgram(_, _)
RunProgram(T, prog) ==
    IF prog = <<>> THEN T
    ELSE RunProgram(rawset(T, Head(prog).k, Head(prog).v), Tail(prog))

\* Object.keys(numValues): the own indices, ascending
RECURSIVE OwnKeysFrom(_, _)
OwnKeysFrom(a, i) ==
    IF i >= Len(a) THEN <<>>
    ELSE (IF Own(a, i) THEN <<i>> ELSE <<>>) \o OwnKeysFrom(a, i + 1)
OwnKeys(a) == OwnKeysFrom(a, 0)

\* what next returns: the part the key was found in, the key as handed to the
\* script, the value; NoPair is the result undefined
NoPair == [part |-> "none", key |-> KNil, val |-> Nil]

\* lines 116-120: the first own index from keys[i] on that holds a value
RECURSIVE NextNum(_, _, _)
NextNum(a, K, i) ==
    IF i + 1 > Len(K) THEN NoPair
    ELSE IF ArrAt(a, K[i + 1]) # Nil
         THEN [part |-> "num", key |-> KNum(K[i + 1]), val |-> ArrAt(a, K[i + 1])]
         ELSE NextNum(a, K, i + 1)

\* lines 124-132 and 134-144: names and vals are the aligned names and values
\* of strValues (in the host's enumeration order) or of keys / values
RECURSIVE NextNamed(_, _, _, _, _, _)
NextNamed(part, names, vals, i, found, index) ==
    IF i > Len(names) THEN [found |-> found, pair |-> NoPair]
    ELSE IF ~found
         THEN NextNamed(part, names, vals, i + 1,
                        index.t = "str" /\ index.s = names[i], index)
         ELSE IF vals[i] # Nil
              THEN [found |-> TRUE,
                    pair |-> [part |-> part, key |-> KStr(names[i]), val |-> vals[i]]]
              ELSE NextNamed(part, names, vals, i + 1, found, index)

\* next(table, index)
next(T, index) ==
    LET found0 == index = KNil
        K == OwnKeys(T.num)
        I == IF index.t = "num" THEN IndexOf(K, index.n) ELSE 0
        inNum == found0 \/ (index.t = "num" /\ index.n > 0)
        found1 == found0 \/ (inNum /\ I # 0)
        numHit == IF inNum /\ found1
                  THEN NextNum(T.num, K, IF found0 THEN 1 ELSE I)
                  ELSE NoPair
        strHit == NextNamed("str", StrNames(T), [i \in 1..Len(T.str) |-> T.str[i].v],
                            1, found1, index)
        genHit == NextNamed("gen", T.keys, T.values, 1, strHit.found, index) IN
      IF numHit # NoPair THEN numHit
      ELSE IF strHit.pair # NoPair THEN strHit.pair
      ELSE genHit.pair

\* the generic for over pairs(t): res = next(t, nil); while res[0] is not
\* undefined the body runs and res = next(t, res[0])
RECURSIVE Traverse(_, _, _)
Traverse(T, index, fuel) ==
    LET r == next(T, index) IN
      IF r = NoPair \/ fuel = 0 THEN <<>>
      ELSE <<r>> \o Traverse(T, r.key, fuel - 1)

InitPairs ==
    /\ inp \in Programs
    /\ res = [done |-> FALSE, table |-> EmptyTable, visited |-> <<>>]

\* `local t = {}; t[k1] = v1; ...; for k, v in pairs(t) do ... end`
RunPairs ==
    /\ ~res.done
    /\ LET T == RunProgram(EmptyTable, inp) IN
         res' = [done |-> TRUE, table |-> T, visited |-> Traverse(T, KNil, MaxVisits)]
    /\ UNCHANGED <<inp, thVars, envVars, tabVars>>

NextPairs == RunPairs

\* the part of the table a key belongs to
PartOf(k) == IF k.t = "str" THEN "str" ELSE IF IsArrayIndex(k) THEN "num" ELSE "gen"
\* the value a key has after the program, and where it was first assigned
RECURSIVE LastValue(_, _)
LastValue(prog, k) ==
    IF prog = <<>> THEN Nil
    ELSE IF prog[Len(prog)].k = k THEN prog[Len(prog)].v
    ELSE LastValue(SubSeq(prog, 1, Len(prog) - 1), k)
FirstAt(prog, k) == CHOOSE i \in 1..Len(prog) : prog[i].k = k /\ \A j \in 1..(i - 1) : prog[j].k # k
\* the keys of one part that hold a value, in the order of their first assignment
RECURSIVE FirstAssigned(_, _, _)
FirstAssigned(prog, part, i) ==
    IF i > Len(prog) THEN <<>>
    ELSE (IF PartOf(prog[i].k) = part /\ FirstAt(prog, prog[i].k) = i
             /\ LastValue(prog, prog[i].k) # Nil
          THEN <<coerceToString(prog[i].k)>> ELSE <<>>)
         \o FirstAssigned(prog, part, i + 1)
\* the positive-integer keys that hold a value, ascending
RECURSIVE Ascending(_, _)
Ascending(prog, n) ==
    IF n > MaxIdx THEN <<>>
    ELSE (IF LastValue(prog, KNum(n)) # Nil THEN <<NumStr(n)>> ELSE <<>>)
         \o Ascending(prog, n + 1)
VisitedNames == [i \in 1..Len(res.visited) |-> coerceToString(res.visited[i].key)]

\* C13: the traversal order follows the layout: first all positive-integer
\* keys in ascending order, then all string keys in the order they were first
\* assigned (whatever the strings are, '10' and '2' included), then all
\* generic keys in the order they were first assigned.
C13_TraversalOrder ==
    res.done =>
        VisitedNames = Ascending(inp, 1) \o FirstAssigned(inp, "str", 1)
                         \o FirstAssigned(inp, "gen", 1)

\* the keys that hold a value after the program
LiveKeys == {k \in PairKeys : LastValue(inp, k) # Nil}
\* the visits that yield the key k: same part, same string form
VisitsOf(k) ==
    {i \in 1..Len(res.visited) :
        /\ res.visited[i].part = PartOf(k)
        /\ coerceToString(res.visited[i].key) = coerceToString(k)}

\* C25: a pairs traversal terminates and is exact: starting with next(t, nil)
\* and feeding each returned key back into next reaches the nil result after
\* finitely many steps and yields every key whose value is non-nil exactly
\* once, also when a string key equals the string form of a generic key.
C25_TraversalTerminatesExact ==
    res.done =>
        /\ Len(res.visited) < MaxVisits
        /\ Len(res.visited) = Cardinality(LiveKeys)
        /\ \A k \in LiveKeys : Cardinality(VisitsOf(k)) = 1

\* C26: keys round-trip through traversal: every pair (k, v) returned by next
\* satisfies rawget(t, k) = v, and k is the very key, same type and value,
\* under which v was stored by rawset.
C26_KeysRoundTrip ==
    res.done =>
        \A i \in 1..Len(res.visited) :
            /\ rawget(res.table, res.visited[i].key) = res.visited[i].val
            /\ res.visited[i].key \in LiveKeys
            /\ LastValue(inp, res.visited[i].key) = res.visited[i].val

(***************************************************************************)
(* The operators of operators.ts and the numeric coercion of utils.ts.     *)
(* A host number is NumV(n) for an integer n, RatV(n, d) for a quotient    *)
(* that is no integer, NaN, or Infinity(s) with s its sign; the host's     *)
(* undefined is Nil.  A string is StrV(cs), cs the sequence of its         *)
(* characters.  PlainTab is a table without metatable, MetaTab a table     *)
(* whose metatable holds a function under every operator's name.           *)
(***************************************************************************)
\* largest magnitude of the integers given to the operators
MaxInt == 4
StrV(cs) == <<"str", cs>>
BoolV(b) == <<"bool", b>>
PlainTab == <<"tab", 0>>
MetaTab == <<"mtab", 0>>
NaN == <<"nan", 0>>
Infinity(s) == <<"inf", s>>
RatV(n, d) == <<"rat", <<n, d>>>>

Abs(x) == IF x < 0 THEN -x ELSE x
Sign(x) == IF x < 0 THEN -1 ELSE 1
RECURSIVE Gcd(_, _)
Gcd(a, b) == IF b = 0 THEN a ELSE Gcd(b, a % b)
RECURSIVE IntPow(_, _)
IntPow(b, e) == IF e = 0 THEN 1 ELSE b * IntPow(b, e - 1)

\* the host's l / r on integers
Quotient(l, r) ==
    IF r = 0 THEN (IF l = 0 THEN NaN ELSE Infinity(Sign(l)))
    ELSE LET g == Gcd(Abs(l), Abs(r))
             n == (Sign(l) * Sign(r) * Abs(l)) \div g
             d == Abs(r) \div g
         IN IF d = 1 THEN NumV(n) ELSE RatV(n, d)

\* utils.ts type
type(v) ==
    CASE v[1] = "nil" -> "nil"
      [] v[1] = "bool" -> "boolean"
      [] v[1] = "str" -> "string"
      [] v[1] \in {"tab", "mtab"} -> "table"
      [] v[1] \in {"hfn", "lfn"} -> "function"
      [] OTHER -> "number"

Digits == {"0", "1", "2", "3", "4", "5", "6", "7", "8", "9"}
HexLetters == {"a", "b", "c", "d", "e", "f", "A", "B", "C", "D", "E", "F"}
DigitVal(c) ==
    CASE c = "0" -> 0 [] c = "1" -> 1 [] c = "2" -> 2 [] c = "3" -> 3 [] c = "4" -> 4
      [] c = "5" -> 5 [] c = "6" -> 6 [] c = "7" -> 7 [] c = "8" -> 8 [] c = "9" -> 9
      [] c \in {"a", "A"} -> 10 [] c \in {"b", "B"} -> 11 [] c \in {"c", "C"} -> 12
      [] c \in {"d", "D"} -> 13 [] c \in {"e", "E"} -> 14 [] OTHER -> 15

\* first position from i on whose character is not in set
RECURSIVE Skip(_, _, _)
Skip(cs, i, set) ==
    IF i <= Len(cs) /\ cs[i] \in set THEN Skip(cs, i + 1, set) ELSE i
\* the number written with the digits cs[i..j-1] in the given base
RECURSIVE DigitsVal(_, _, _, _)
DigitsVal(cs, i, j, base) ==
    IF j <= i THEN 0 ELSE DigitsVal(cs, i, j - 1, base) * base + DigitVal(cs[j - 1])
IsAt(cs, i, set) == i <= Len(cs) /\ cs[i] \in set

\* FLOATING_POINT_PATTERN: /^[-+]?[0-9]*\.?([0-9]+([eE][-+]?[0-9]+)?)?$/ read from
\* character i on.  ph is the part of the pattern being read, mant the number
\* the digits of the mantissa write, nint and nf the digits before and after
\* the point, ex the exponent's digits.
ScanStart ==
    [ph |-> "sign", ok |-> TRUE, neg |-> FALSE, mant |-> 0, nint |-> 0, nf |-> 0,
     eneg |-> FALSE, ex |-> 0]
RECURSIVE FloatScan(_, _, _)
FloatScan(cs, i, s) ==
    IF i > Len(cs) THEN [s EXCEPT !.ok = s.ph \in {"sign", "int", "frac", "exp"}]
    ELSE
      CASE s.ph = "sign" /\ cs[i] \in {"-", "+"} ->
             FloatScan(cs, i + 1, [s EXCEPT !.ph = "int", !.neg = (cs[i] = "-")])
        [] s.ph = "sign" /\ cs[i] \notin {"-", "+"} ->
             FloatScan(cs, i, [s EXCEPT !.ph = "int"])
        [] s.ph = "int" /\ cs[i] \in Digits ->
             FloatScan(cs, i + 1, [s EXCEPT !.mant = @ * 10 + DigitVal(cs[i]), !.nint = @ + 1])
        [] s.ph = "int" /\ cs[i] = "." ->
             FloatScan(cs, i + 1, [s EXCEPT !.ph = "frac"])
        [] s.ph = "frac" /\ cs[i] \in Digits ->
             FloatScan(cs, i + 1, [s EXCEPT !.mant = @ * 10 + DigitVal(cs[i]), !.nf = @ + 1])
        [] s.ph = "int" /\ cs[i] \in {"e", "E"} /\ s.nint > 0 ->
             FloatScan(cs, i + 1, [s EXCEPT !.ph = "esign"])
        [] s.ph = "frac" /\ cs[i] \in {"e", "E"} /\ s.nf > 0 ->
             FloatScan(cs, i + 1, [s EXCEPT !.ph = "esign"])
        [] s.ph = "esign" /\ cs[i] \in {"-", "+"} ->
             FloatScan(cs, i + 1, [s EXCEPT !.ph = "edigit", !.eneg = (cs[i] = "-")])
        [] s.ph \in {"esign", "edigit", "exp"} /\ cs[i] \in Digits ->
             FloatScan(cs, i + 1, [s EXCEPT !.ph = "exp", !.ex = @ * 10 + DigitVal(cs[i])])
        [] OTHER -> [s EXCEPT !.ok = FALSE]
FloatMatch(cs) == FloatScan(cs, 1, ScanStart).ok

\* the number a matched numeral writes; NaN when it has no digit
FloatValue(s) ==
    IF s.nint = 0 /\ s.nf = 0 THEN NaN
    ELSE IF s.eneg
      THEN Quotient((IF s.neg THEN -1 ELSE 1) * s.mant, IntPow(10, s.nf + s.ex))
      ELSE Quotient((IF s.neg THEN -1 ELSE 1) * s.mant * IntPow(10, s.ex), IntPow(10, s.nf))
\* the host's parseFloat on a string that FLOATING_POINT_PATTERN matches
parseFloat(cs) == FloatValue(FloatScan(cs, 1, ScanStart))

\* HEXIDECIMAL_CONSTANT_PATTERN: /^(-)?0x([0-9a-fA-F]*)\.?([0-9a-fA-F]*)$/
HexParts(cs) ==
    LET i0 == IF IsAt(cs, 1, {"-"}) THEN 2 ELSE 1
        i1 == Skip(cs, i0 + 2, Digits \cup HexLetters)
        i2 == IF IsAt(cs, i1, {"."}) THEN i1 + 1 ELSE i1
        i3 == Skip(cs, i2, Digits \cup HexLetters)
    IN [neg |-> i0 = 2, i0 |-> i0, i1 |-> i1, i2 |-> i2, i3 |-> i3]
HexMatch(cs) ==
    LET p == HexParts(cs) IN
      IsAt(cs, p.i0, {"0"}) /\ IsAt(cs, p.i0 + 1, {"x"}) /\ p.i3 > Len(cs)
\* n = parseInt(exponent, 16) || 0, plus the mantissa's sixteenths, times the sign
HexValue(cs) ==
    LET p == HexParts(cs)
        nm == p.i3 - p.i2
        n == DigitsVal(cs, p.i0 + 2, p.i1, 16) * IntPow(16, nm) + DigitsVal(cs, p.i2, p.i3, 16)
    IN Quotient((IF p.neg THEN -1 ELSE 1) * n, IntPow(16, nm))

\* the host's `${val}` for the values that are no numbers
Interpolate(v) ==
    CASE v[1] = "str" -> v[2]
      [] v[1] = "bool" -> IF v[2] THEN <<"t", "r", "u", "e">> ELSE <<"f", "a", "l", "s", "e">>
      [] OTHER -> <<"[", "o", "b", "j", "e", "c", "t", " ", "O", "b", "j", "e", "c", "t", "]">>

ArithMsg(v) == "attempt to perform arithmetic on a " \o type(v) \o " value"

\* utils.ts coerceToNumber(val, 'attempt to perform arithmetic on a %type value') and
\* throwCoerceError: the outcome is a host number, undefined, or a LuaError
coerceToNumber(val) ==
    IF val[1] \in {"num", "rat", "nan", "inf"} THEN OutVal(val)
    ELSE IF val = Nil THEN OutVal(Nil)
    ELSE IF val = StrV(<<"i", "n", "f">>) THEN OutVal(Infinity(1))
    ELSE IF val = StrV(<<"-", "i", "n", "f">>) THEN OutVal(Infinity(-1))
    ELSE IF val = StrV(<<"n", "a", "n">>) THEN OutVal(NaN)
    ELSE LET V == Interpolate(val) IN
      IF FloatMatch(V) THEN OutVal(parseFloat(V))
      ELSE IF HexMatch(V) THEN OutVal(HexValue(V))
      ELSE OutErr("lua", ArithMsg(val))

\* the host's ToNumber on what coerceToNumber hands to a callback
ToNumber(x) == IF x = Nil THEN NaN ELSE x
IsInt(x) == x[1] = "num"
AnyNaN(l, r) == ToNumber(l) = NaN \/ ToNumber(r) = NaN
\* the host's ToInt32 for NaN, undefined, the infinities and integers of at most 32 bits
ToInt32(x) == IF IsInt(x) THEN x[2] ELSE 0
\* floor(l / r) on integers, r # 0
FloorDiv(l, r) == IF r > 0 THEN l \div r ELSE (-l) \div (-r)

OutMM == [kind |-> "mm", val |-> Nil, msg |-> "", call |-> NoCall]
HasMetaMethod(v) == v = MetaTab

\* the host's +, - and * on integers, NaN and undefined
Arith(op, l, r) ==
    CASE AnyNaN(l, r) -> OutVal(NaN)
      [] IsInt(l) /\ IsInt(r) ->
           OutVal(NumV(CASE op = "add" -> l[2] + r[2]
                         [] op = "sub" -> l[2] - r[2]
                         [] op = "mul" -> l[2] * r[2]))

\* the callback of mod
ModCallback(l, r) ==
    CASE r = NumV(0) \/ r[1] = "inf" \/ AnyNaN(l, r) -> OutVal(NaN)
      [] IsInt(l) /\ IsInt(r) /\ r # NumV(0) ->
           LET absR == Abs(r[2])
               result0 == Abs(l[2]) % absR
               result1 == IF l[2] * r[2] < 0 THEN absR - result0 ELSE result0
               result == IF r[2] < 0 THEN result1 * (-1) ELSE result1
           IN OutVal(NumV(result))

\* Math.pow on integers, NaN and undefined
MathPow(l, r) ==
    CASE ToNumber(r) = NaN -> OutVal(NaN)
      [] r = NumV(0) -> OutVal(NumV(1))
      [] ToNumber(l) = NaN /\ IsInt(r) /\ r # NumV(0) -> OutVal(NaN)
      [] IsInt(l) /\ IsInt(r) /\ r[2] > 0 -> OutVal(NumV(IntPow(l[2], r[2])))
      [] IsInt(l) /\ IsInt(r) /\ r[2] < 0 ->
           OutVal(IF l[2] = 0 THEN Infinity(1) ELSE Quotient(1, IntPow(l[2], -r[2])))

NilArithMsg == "attempt to perform arithmetic on a nil value"
\* the callback of div
DivCallback(l, r) ==
    CASE r = Nil -> OutErr("lua", NilArithMsg)
      [] r # Nil /\ AnyNaN(l, r) -> OutVal(NaN)
      [] IsInt(l) /\ IsInt(r) -> OutVal(Quotient(l[2], r[2]))

\* the callback of idiv: Math.floor(l / r)
IdivCallback(l, r) ==
    CASE r = Nil -> OutErr("lua", NilArithMsg)
      [] r # Nil /\ AnyNaN(l, r) -> OutVal(NaN)
      [] IsInt(l) /\ IsInt(r) ->
           OutVal(IF r[2] = 0 THEN Quotient(l[2], 0) ELSE NumV(FloorDiv(l[2], r[2])))

BitF(op, x, y) ==
    CASE op = "band" -> IF x = 1 /\ y = 1 THEN 1 ELSE 0
      [] op = "bor" -> IF x = 1 \/ y = 1 THEN 1 ELSE 0
      [] OTHER -> IF x # y THEN 1 ELSE 0
\* the host's &, | and ^ on two's-complement integers, bit by bit from the lowest
RECURSIVE Bitwise(_, _, _)
Bitwise(op, a, b) ==
    IF a \in {0, -1} /\ b \in {0, -1} THEN -BitF(op, -a, -b)
    ELSE 2 * Bitwise(op, a \div 2, b \div 2) + BitF(op, a % 2, b % 2)

\* the shift count the host takes from r: its low five bits
ShiftCount(r) == ToInt32(r) % 32

\* the callback each operator hands to binaryArithmetic
Callback(op, l, r) ==
    CASE op \in {"add", "sub", "mul"} -> Arith(op, l, r)
      [] op = "mod" -> ModCallback(l, r)
      [] op = "pow" -> MathPow(l, r)
      [] op = "div" -> DivCallback(l, r)
      [] op = "idiv" -> IdivCallback(l, r)
      [] op \in {"band", "bor", "bxor"} -> OutVal(NumV(Bitwise(op, ToInt32(l), ToInt32(r))))
      \* l << r and l >> r, for products within 32 bits
      [] op = "shl" -> OutVal(NumV(ToInt32(l) * IntPow(2, ShiftCount(r))))
      [] op = "shr" -> OutVal(NumV(ToInt32(l) \div IntPow(2, ShiftCount(r))))

\* operators.ts binaryArithmetic, op the operator whose metamethod and callback it is given
binaryArithmetic(left, right, op) ==
    IF HasMetaMethod(left) \/ HasMetaMethod(right) THEN OutMM
    ELSE LET L == coerceToNumber(left) IN
      IF L.kind # "val" THEN L
      ELSE LET R == coerceToNumber(right) IN
        IF R.kind # "val" THEN R
        ELSE Callback(op, L.val, R.val)

mod(left, right) == binaryArithmetic(left, right, "mod")

\* operators.ts unm: -1 * coerceToNumber(value, ...)
unm(value) ==
    IF HasMetaMethod(value) THEN OutMM
    ELSE LET c == coerceToNumber(value) IN
      IF c.kind # "val" THEN c
      ELSE IF IsInt(c.val) THEN OutVal(NumV(-1 * c.val[2])) ELSE OutVal(NaN)

\* operators.ts bnot: ~coerceToNumber(value, ...)
bnot(value) ==
    IF HasMetaMethod(value) THEN OutMM
    ELSE LET c == coerceToNumber(value) IN
      IF c.kind # "val" THEN c ELSE OutVal(NumV(-ToInt32(c.val) - 1))

(***************************************************************************)
(* One operator applied to operands of every type.                         *)
(***************************************************************************)
BinaryOps == {"add", "sub", "mul", "mod", "pow", "div", "idiv",
              "band", "bor", "bxor", "shl", "shr"}
UnaryOps == {"unm", "bnot"}
Ints == (-MaxInt)..MaxInt
NumericStrings == {<<"3">>, <<"-", "2">>, <<"0", "x", "4">>}
OtherStrings == {<<>>, <<"a">>, <<".">>}
Operands ==
    {NumV(n) : n \in Ints} \cup {StrV(cs) : cs \in NumericStrings \cup OtherStrings}
      \cup {Nil, BoolV(TRUE), PlainTab, MetaTab}
\* a shift whose count is negative moves bits out of the 32 the host keeps
CountInRange(v) ==
    LET c == coerceToNumber(v) IN c.kind = "val" /\ IsInt(c.val) => c.val[2] >= 0

\* add, sub, mul, mod, pow, div, idiv, band, bor, bxor, shl, shr, unm, bnot
ApplyOp(op, l, r) ==
    CASE op = "mod" -> mod(l, r)
      [] op = "unm" -> unm(l)
      [] op = "bnot" -> bnot(l)
      [] OTHER -> binaryArithmetic(l, r, op)

NoOut == [done |-> FALSE, out |-> OutVal(Nil)]
InitOps ==
    /\ inp \in [op : BinaryOps, l : Operands, r : Operands]
                 \cup [op : UnaryOps, l : Operands, r : {Nil}]
    /\ inp.op \in {"shl", "shr"} => CountInRange(inp.r)
    /\ res = NoOut

\* `return l <op> r`
RunBinary ==
    /\ ~res.done /\ inp.op \in BinaryOps
    /\ res' = [done |-> TRUE, out |-> ApplyOp(inp.op, inp.l, inp.r)]
    /\ UNCHANGED <<inp, thVars, envVars, tabVars>>

\* `return -l`, `return ~l`
RunUnary ==
    /\ ~res.done /\ inp.op \in UnaryOps
    /\ res' = [done |-> TRUE, out |-> ApplyOp(inp.op, inp.l, inp.r)]
    /\ UNCHANGED <<inp, thVars, envVars, tabVars>>

NextOps == RunBinary \/ RunUnary

\* C15: for integers a and b with b # 0, mod(a, b) is a - floor(a/b)*b (0 when b
\* divides a, otherwise of b's sign and of magnitude below |b|); mod(a, 0) is NaN.
C15_ModIsFlooredRemainder ==
    (res.done /\ inp.op = "mod" /\ IsInt(inp.l) /\ IsInt(inp.r)) =>
        LET a == inp.l[2]
            b == inp.r[2]
        IN IF b = 0 THEN res.out = OutVal(NaN)
           ELSE res.out = OutVal(NumV(a - FloorDiv(a, b) * b))

OperandsOf(i) == IF i.op \in UnaryOps THEN {i.l} ELSE {i.l, i.r}
\* nil, a boolean, a table without metamethod, a string that is no numeral
NonNumeric(v) == v \in {Nil, BoolV(TRUE), PlainTab} \cup {StrV(cs) : cs \in OtherStrings}

\* C16: an arithmetic or bitwise operator applied to an operand that is no number
\* and no numeral string, no operand carrying the metamethod, raises the domain
\* error 'attempt to perform arithmetic on a <type> value' and returns no value.
C16_NonNumericOperandRaises ==
    (/\ res.done
     /\ \A v \in OperandsOf(inp) : ~HasMetaMethod(v)
     /\ \E v \in OperandsOf(inp) : NonNumeric(v))
    => /\ res.out.kind = "lua"
       /\ \E v \in OperandsOf(inp) : NonNumeric(v) /\ res.out.msg = ArithMsg(v)

(***************************************************************************)
(* pcall, xpcall and error of lib/globals.ts.  TextV(s) is a string value  *)
(* whose characters are not looked at.  A call ends in Returned(vs), the   *)
(* array it returns, or in an exception: LuaError(m), HostError(m) (a      *)
(* TypeError of the host with message m) or ThrownUndefined (host code     *)
(* executing `throw undefined`).                                           *)
(***************************************************************************)
TextV(s) == <<"text", s>>
ExcV(e) == <<"exc", e>>
Returned(vs) == [kind |-> "ret", vals |-> vs, msg |-> ""]
Raised(e) == [kind |-> e.kind, vals |-> <<>>, msg |-> e.msg]
ThrownUndefined == [kind |-> "undefined", msg |-> ""]
NonFunctionMsg == "Attempt to call non-function"

\* LuaError.toString and the host's Error.prototype.toString
toString(e) ==
    IF e.kind = "lua" THEN "LuaError: " \o e.msg
    ELSE IF e.msg = "" THEN "TypeError" ELSE "TypeError: " \o e.msg

\* what a function value does when called
\*   "echo"   function(...) return ... end
\*   "error"  function(m) error(m) end
\*   "host"   a host function: () => { throw new TypeError('boom') }
\*   "undef"  a host function: () => { throw undefined }
\*   "handled" function(e) return 'handled' end
\*   "nil"    no function at all
Functions == {"echo", "error", "host", "undef", "handled"}
ArgOf(args, i) == IF i <= Len(args) THEN args[i] ELSE Nil
ValueKey(v) == CASE v[1] = "text" -> KStr(v[2]) [] v[1] = "num" -> KNum(v[2]) [] OTHER -> KNil

\* error(message): msg = coerceArgToString(message, 'error', 1); throw new LuaError(msg)
error(message) == Raised(LuaError(coerceToString(ValueKey(message))))

\* f(...args)
CallF(f, args) ==
    CASE f = "echo" -> Returned(args)
      [] f = "error" -> error(ArgOf(args, 1))
      [] f = "host" -> Raised(HostError("boom"))
      [] f = "undef" -> Raised(ThrownUndefined)
      [] f = "handled" -> Returned(<<TextV("handled")>>)

\* the exception object a raised outcome carries
ExcOf(o) == [kind |-> o.kind, msg |-> o.msg]

\* pcall(f, ...args)
pcall(f, args) ==
    IF f \notin Functions THEN Raised(LuaError(NonFunctionMsg))
    ELSE LET o == CallF(f, args) IN
      IF o.kind = "ret" THEN Returned(<<BoolV(TRUE)>> \o o.vals)
      \* catch (e) { return [false, e && e.toString()] }
      ELSE IF o.kind = "undefined" THEN Returned(<<BoolV(FALSE), Nil>>)
      ELSE Returned(<<BoolV(FALSE), TextV(toString(ExcOf(o)))>>)

\* xpcall(f, msgh, ...args)
xpcall(f, msgh, args) ==
    IF f \notin Functions \/ msgh \notin Functions THEN Raised(LuaError(NonFunctionMsg))
    ELSE LET o == CallF(f, args) IN
      IF o.kind = "ret" THEN Returned(<<BoolV(TRUE)>> \o o.vals)
      \* catch (e) { return [false, msgh(e)[0]] }
      ELSE LET e == IF o.kind = "undefined" THEN Nil ELSE ExcV(ExcOf(o))
               h == CallF(msgh, <<e>>)
           IN IF h.kind = "ret" THEN Returned(<<BoolV(FALSE), ArgOf(h.vals, 1)>>) ELSE h

MaxArgs == 2
ArgVals == {Nil, NumV(1), TextV("m"), TextV("")}
CallArgs == UNION {[1..n -> ArgVals] : n \in 0..MaxArgs}
InitCall ==
    /\ inp \in [fn : {"pcall"}, f : Functions \cup {"nil"}, msgh : {"nil"}, args : CallArgs]
          \cup [fn : {"xpcall"}, f : Functions \cup {"nil"}, msgh : Functions \cup {"nil"},
                args : CallArgs]
    /\ res = [done |-> FALSE, out |-> Returned(<<>>)]

\* `pcall(f, ...)` called by the embedding host
RunPcall ==
    /\ ~res.done /\ inp.fn = "pcall"
    /\ res' = [done |-> TRUE, out |-> pcall(inp.f, inp.args)]
    /\ UNCHANGED <<inp, thVars, envVars, tabVars>>

\* `xpcall(f, msgh, ...)` called by the embedding host
RunXpcall ==
    /\ ~res.done /\ inp.fn = "xpcall"
    /\ res' = [done |-> TRUE, out |-> xpcall(inp.f, inp.msgh, inp.args)]
    /\ UNCHANGED <<inp, thVars, envVars, tabVars>>

NextCall == RunPcall \/ RunXpcall

\* C17: when f raises a domain error with message m through error(m), pcall(f, ...)
\* returns exactly false followed by m itself, nothing added to or removed from m.
C17_PcallReportsMessage ==
    (res.done /\ inp.fn = "pcall" /\ inp.f = "error" /\ ArgOf(inp.args, 1)[1] = "text") =>
        res.out = Returned(<<BoolV(FALSE), ArgOf(inp.args, 1)>>)

\* C18: a host exception that is no LuaError, thrown while pcall or xpcall executes
\* f, is never turned into a [false, ...] result: it leaves pcall/xpcall as the
\* same exception.
C18_HostExceptionsEscape ==
    (/\ res.done
     /\ inp.f \in {"host", "undef"}
     /\ inp.fn = "xpcall" => inp.msgh \in Functions)
    => res.out = CallF(inp.f, inp.args)

(***************************************************************************)
(* Scope.ts.  heap is the sequence of the scopes created so far; a scope   *)
(* is [parent, vars]: parent the parent scope's position (0 for none) and  *)
(* vars the own properties of its _variables object, Absent where it has   *)
(* none.  _variables of an extended scope is Object.create(parent's        *)
(* _variables), and the root's is a plain host object: every one of them   *)
(* inherits the accessor `__proto__` and the methods (toString, ...) of    *)
(* the host's Object.prototype.                                            *)
(***************************************************************************)
MaxScopes == 4
RootScope == 1
Absent == <<"absent", 0>>
ProtoName == "__proto__"
\* the names the scripts of the model bind
OwnNames == {"x"}
\* methods of Object.prototype (constructor, toString, hasOwnProperty, ...); the
\* scripts of the model read them and never bind them
ProtoMethods == {"toString", "constructor"}
\* the host function Object.prototype[key]
ProtoMethod(key) == <<"hostfn", key>>
VarNames == OwnNames \cup {ProtoName}
VarVals == {Nil, NumV(1)}
\* the object a _variables object inherits from: the parent's, or Object.prototype
ProtoV(parent) == <<"proto", parent>>
NewScope(parent) == [parent |-> parent, vars |-> [k \in OwnNames |-> Absent]]

\* utils.ts hasOwnProperty(this._variables, key)
ScopeHasOwn(sc, key) == key \in OwnNames /\ sc.vars[key] # Absent

\* Scope.get: this._variables[key], read along the prototype chain
RECURSIVE ScopeGet(_, _, _)
ScopeGet(h, s, key) ==
    IF key = ProtoName THEN ProtoV(h[s].parent)
    ELSE IF ScopeHasOwn(h[s], key) THEN h[s].vars[key]
    ELSE IF h[s].parent = 0
         THEN IF key \in ProtoMethods THEN ProtoMethod(key) ELSE Nil
    ELSE ScopeGet(h, h[s].parent, key)

\* Scope.setLocal: this._variables[key] = value.  For `__proto__` the host runs
\* the inherited setter, which ignores a value that is no object and no null.
ScopeSetLocal(h, s, key, value) ==
    IF key = ProtoName THEN h ELSE [h EXCEPT ![s].vars[key] = value]

\* Scope.set
RECURSIVE ScopeSet(_, _, _, _)
ScopeSet(h, s, key, value) ==
    IF ScopeHasOwn(h[s], key) \/ h[s].parent = 0
    THEN ScopeSetLocal(h, s, key, value)
    ELSE ScopeSet(h, h[s].parent, key, value)

ScopeEv(op, s, k, v) == [op |-> op, s |-> s, k |-> k, v |-> v]
\* execChunk: new Scope(_G.strValues).extend()
InitScope ==
    /\ heap = <<NewScope(0), NewScope(RootScope)>>
    /\ tev = ScopeEv("init", 0, "", Nil)
    /\ nops = 0

\* Scope.extend, on entering a block or a function, or on another execChunk
Extend(s) ==
    /\ Len(heap) < MaxScopes
    /\ heap' = Append(heap, NewScope(s))
    /\ tev' = ScopeEv("extend", s, "", Nil)
    /\ UNCHANGED <<nops, notTable>>

\* `local k = v` in scope s
SetLocal(s, k, v) ==
    /\ s # RootScope
    /\ heap' = ScopeSetLocal(heap, s, k, v)
    /\ tev' = ScopeEv("setLocal", s, k, v)
    /\ UNCHANGED <<nops, notTable>>

\* `k = v` in scope s
Set(s, k, v) ==
    /\ s # RootScope
    /\ heap' = ScopeSet(heap, s, k, v)
    /\ tev' = ScopeEv("set", s, k, v)
    /\ UNCHANGED <<nops, notTable>>

NextScope ==
    \/ \E s \in 1..Len(heap) : Extend(s)
    \/ \E s \in 1..Len(heap), k \in VarNames, v \in VarVals : SetLocal(s, k, v)
    \/ \E s \in 1..Len(heap), k \in VarNames, v \in VarVals : Set(s, k, v)

\* the own binding of k in scope s, as hasOwnProperty and an own read show it
OwnBinding(h, s, k) == IF ScopeHasOwn(h[s], k) THEN h[s].vars[k] ELSE Absent
\* the nearest scope from s to the root that defines k, the root when none does
RECURSIVE Definer(_, _, _)
Definer(h, s, k) ==
    IF OwnBinding(h, s, k) # Absent \/ h[s].parent = 0 THEN s ELSE Definer(h, h[s].parent, k)

\* C19: Scope.set(k, v) writes to exactly one scope, the nearest scope on the chain
\* from the current scope to the root that already defines k, or the root when
\* none does; every other own binding is unchanged, and every scope whose
\* nearest definer of k is that scope reads v.
SetWritesDefiner ==
    tev'.op = "set" =>
      LET target == Definer(heap, tev'.s, tev'.k) IN
        /\ Len(heap') = Len(heap)
        /\ OwnBinding(heap', target, tev'.k) = tev'.v
        /\ \A s \in 1..Len(heap), k \in VarNames :
             <<s, k>> # <<target, tev'.k>> => OwnBinding(heap', s, k) = OwnBinding(heap, s, k)
        /\ \A s \in 1..Len(heap) :
             Definer(heap', s, tev'.k) = target => ScopeGet(heap', s, tev'.k) = tev'.v
C19_SetWritesNearestDefiner == [][SetWritesDefiner]_vars

\* k is bound in scope s or an ancestor (the root's bindings are the string keys
\* of the global table)
RECURSIVE Bound(_, _, _)
Bound(h, s, k) ==
    \/ OwnBinding(h, s, k) # Absent
    \/ h[s].parent # 0 /\ Bound(h, h[s].parent, k)

\* C27: reading an unbound name yields nil: for every name, constructor, toString
\* and the like included, Scope.get(name) on the chunk scope or a scope extended
\* from it is nil unless the name was bound by set or setLocal in that scope or
\* an ancestor or is a string key of the global table.
C27_UnboundReadsNil ==
    \A s \in 1..Len(heap), k \in VarNames \cup ProtoMethods :
        (s # RootScope /\ ~Bound(heap, s, k)) => ScopeGet(heap, s, k) = Nil

(***************************************************************************)
(* checkGoto of parser.ts.  A statement is [t, name, body]: t its type,    *)
(* name the name of a local, label or goto, body the statements of a       *)
(* block (for an if statement, its clauses).  The walk keeps               *)
(*   info    gotoInfo, the locals, labels and gotos in source order        *)
(*   scope   gotoScope, the number of the block being walked               *)
(*   id      the last number getNextGotoScope gave out                     *)
(*   parent  gotoScopeMap                                                  *)
(*   err     the message of the error thrown, "" for none.                 *)
(***************************************************************************)
MaxChunk == 3
MaxBody == 2
Stmt(t, name, body) == [t |-> t, name |-> name, body |-> body]
isBlock(node) == node.t \in {"clause", "while", "do", "repeat", "function", "chunk"}

Info(ty, name, scope, last) == [type |-> ty, name |-> name, scope |-> scope, last |-> last]
WalkStart == [info |-> <<>>, scope |-> 0, id |-> 0, parent |-> <<>>, err |-> ""]
DuplicateLabel(st, name) ==
    \E j \in 1..Len(st.info) :
        st.info[j].type = "label" /\ st.info[j].name = name /\ st.info[j].scope = st.scope
\* node.type !== 'RepeatStatement' && node.body.slice(i).every(n => n.type === 'LabelStatement')
IsLast(node, i) == node.t # "repeat" /\ \A j \in i..Len(node.body) : node.body[j].t = "label"
Push(st, e) == [st EXCEPT !.info = Append(@, e)]
\* createGotoScope and destroyGotoScope
createGotoScope(st) ==
    [st EXCEPT !.id = st.id + 1, !.scope = st.id + 1, !.parent = Append(@, st.scope)]
destroyGotoScope(st) == [st EXCEPT !.scope = st.parent[st.scope]]

RECURSIVE check(_, _)
RECURSIVE CheckBody(_, _, _)
RECURSIVE CheckClauses(_, _, _)
\* the loop over node.body, from statement i on
CheckBody(node, i, st) ==
    IF i > Len(node.body) \/ st.err # "" THEN st
    ELSE
      CASE node.body[i].t = "local" ->
             CheckBody(node, i + 1, Push(st, Info("local", node.body[i].name, st.scope, FALSE)))
        [] node.body[i].t = "label" ->
             IF DuplicateLabel(st, node.body[i].name)
             THEN [st EXCEPT !.err = "label already defined"]
             ELSE CheckBody(node, i + 1,
                            Push(st, Info("label", node.body[i].name, st.scope, IsLast(node, i))))
        [] node.body[i].t = "goto" ->
             CheckBody(node, i + 1, Push(st, Info("goto", node.body[i].name, st.scope, FALSE)))
        [] node.body[i].t = "if" ->
             CheckBody(node, i + 1, CheckClauses(node.body[i].body, 1, st))
        [] OTHER -> CheckBody(node, i + 1, check(node.body[i], st))
\* n.clauses.forEach(n => check(n))
CheckClauses(clauses, i, st) ==
    IF i > Len(clauses) \/ st.err # "" THEN st
    ELSE CheckClauses(clauses, i + 1, check(clauses[i], st))
check(node, st) ==
    IF ~isBlock(node) THEN st
    ELSE destroyGotoScope(CheckBody(node, 1, createGotoScope(st)))

\* the label a goto is resolved to: among the labels of its name whose scope
\* number is at most the goto's, the one whose scope number is nearest; 0 for none
Candidates(info, i) ==
    {j \in 1..Len(info) : /\ info[j].type = "label"
                          /\ info[j].name = info[i].name
                          /\ info[j].scope <= info[i].scope}
LabelOf(info, i) ==
    IF Candidates(info, i) = {} THEN 0
    ELSE CHOOSE j \in Candidates(info, i) :
           \A k \in Candidates(info, i) : info[k].scope <= info[j].scope
JumpsIntoLocal(info, i, labelI) ==
    /\ labelI > i
    /\ ~info[labelI].last
    /\ \E k \in i..(labelI - 1) : info[k].type = "local" /\ info[k].scope = info[labelI].scope
\* the loop over gotoInfo, from entry i on
RECURSIVE Resolve(_, _)
Resolve(info, i) ==
    IF i > Len(info) THEN ""
    ELSE IF info[i].type # "goto" THEN Resolve(info, i + 1)
    ELSE IF LabelOf(info, i) = 0 THEN "no visible label for <goto>"
    ELSE IF JumpsIntoLocal(info, i, LabelOf(info, i)) THEN "<goto> jumps into the scope of local"
    ELSE Resolve(info, i + 1)

Walked(ast) == check(ast, WalkStart)
checkGoto(ast) == IF Walked(ast).err # "" THEN Walked(ast).err ELSE Resolve(Walked(ast).info, 1)

\* the programs: a chunk of at most MaxChunk statements, each a local, a label, a
\* goto, or a do block, function declaration or one-clause if statement whose
\* body holds at most MaxBody locals, labels and gotos
Leaves == {Stmt("local", "a", <<>>), Stmt("label", "l", <<>>), Stmt("goto", "l", <<>>)}
Bodies == UNION {[1..n -> Leaves] : n \in 0..MaxBody}
Blocks ==
    {Stmt("do", "", b) : b \in Bodies} \cup {Stmt("function", "", b) : b \in Bodies}
      \cup {Stmt("if", "", <<Stmt("clause", "", b)>>) : b \in Bodies}
Chunks == {Stmt("chunk", "", b) : b \in UNION {[1..n -> Leaves \cup Blocks] : n \in 0..MaxChunk}}

InitGoto ==
    /\ inp \in Chunks
    /\ res = [done |-> FALSE, err |-> ""]

\* parse(code): checkGoto(ast)
Parse ==
    /\ ~res.done
    /\ res' = [done |-> TRUE, err |-> checkGoto(inp)]
    /\ UNCHANGED <<inp, thVars, envVars, tabVars>>

NextGoto == Parse

\* labels written directly in a body
LabelsIn(body) == {body[j].name : j \in {i \in 1..Len(body) : body[i].t = "label"}}
\* some goto in body names a label that is neither in its own block nor in a block
\* enclosing it within the same function (outer: the labels of the enclosing blocks)
RECURSIVE HasInvisibleGoto(_, _)
HasInvisibleGoto(body, outer) ==
    \E i \in 1..Len(body) :
      CASE body[i].t = "goto" -> body[i].name \notin (outer \cup LabelsIn(body))
        [] body[i].t = "function" -> HasInvisibleGoto(body[i].body, {})
        [] body[i].t = "do" -> HasInvisibleGoto(body[i].body, outer \cup LabelsIn(body))
        [] body[i].t = "if" ->
             \E c \in 1..Len(body[i].body) :
                 HasInvisibleGoto(body[i].body[c].body, outer \cup LabelsIn(body))
        [] OTHER -> FALSE

\* C20: parse raises an error for every goto whose label is not defined in the
\* goto's own block or in a block lexically enclosing it inside the same function;
\* a label in a sibling block, a deeper block or another function does not count.
C20_InvisibleLabelRejected ==
    (res.done /\ HasInvisibleGoto(inp.body, {})) => res.err # ""

(***************************************************************************)
(* Multiple assignment with member-expression targets (parseAssignments).  *)
(* A statement `a.k1, b.k2 = e1, e2` with a right-hand side that is no     *)
(* literal is emitted as                                                   *)
(*     vals = [a.setFn(k1), b.setFn(k2)];  vars = [e1, e2];                *)
(*     vals[0](vars[0]);  vals[1](vars[1])                                 *)
(* and `vars`, `vals` are declared once, by the chunk.  inp holds the      *)
(* targets of the two statements of the chunk, as <<variable, key>>; res   *)
(* holds the chunk's registers vals and vars, the tables the variables are *)
(* bound to, each statement's position (idle, eval: its right-hand side is *)
(* being evaluated, done) and the thunks it created.  Statement s assigns  *)
(* the values 10*s + 1, 10*s + 2.                                          *)
(***************************************************************************)
MaxTargets == 2
Stmts == {1, 2}
BaseNames == {"a", "b"}
FieldNames == {"x", "y"}
TargetLists == UNION {[1..n -> BaseNames \X FieldNames] : n \in 0..MaxTargets}
StmtValue(s, i) == NumV(10 * s + i)
\* base.setFn(key): v => this.set(key, v), this being the table the base holds now
setFn(bind, target) == <<bind[target[1]], target[2]>>
NotAFunctionMsg == "TypeError: vals[i] is not a function"

InitAssign ==
    /\ inp \in [Stmts -> TargetLists]
    /\ Len(inp[1]) = MaxTargets
    /\ res = [pc |-> [s \in Stmts |-> "idle"], vals |-> <<>>, vars |-> <<>>,
              bind |-> [a |-> TabR, b |-> TabD], own |-> [s \in Stmts |-> <<>>],
              err |-> ""]
    /\ heap = [t \in {TabR, TabD} |-> EmptyTable]
    /\ tev = [op |-> "init", s |-> 0]
    /\ nops = 0

\* vals = [...]: emitted only when the statement has a member-expression target
Capture(s) ==
    /\ res.pc[s] = "idle" /\ res.err = ""
    /\ LET thunks == [i \in 1..Len(inp[s]) |-> setFn(res.bind, inp[s][i])] IN
         res' = [res EXCEPT !.pc[s] = "eval", !.own[s] = thunks,
                            !.vals = IF Len(inp[s]) > 0 THEN thunks ELSE @]
    /\ tev' = [op |-> "capture", s |-> s]
    /\ UNCHANGED <<heap, nops, inp, thVars, envVars>>

\* a side effect of a right-hand side: the variables a and b exchange their tables
Rebind ==
    /\ \E s \in Stmts : res.pc[s] = "eval"
    /\ res.err = ""
    /\ res' = [res EXCEPT !.bind = [a |-> res.bind.b, b |-> res.bind.a]]
    /\ tev' = [op |-> "rebind", s |-> 0]
    /\ UNCHANGED <<heap, nops, inp, thVars, envVars>>

\* vals[i - 1](vars[i - 1]) for the targets from i on; a missing thunk throws
RECURSIVE CallThunks(_, _, _, _, _)
CallThunks(h, vals, vs, i, n) ==
    IF i > n THEN [heap |-> h, err |-> ""]
    ELSE IF i > Len(vals) THEN [heap |-> h, err |-> NotAFunctionMsg]
    ELSE CallThunks(TableSet(h, vals[i][1], KStr(vals[i][2]), vs[i], {}).heap,
                    vals, vs, i + 1, n)

\* the right-hand side has been evaluated: vars = [...]; vals[0](vars[0]); ...
Finish(s) ==
    /\ res.pc[s] = "eval" /\ res.err = ""
    /\ LET values == [i \in 1..Len(inp[s]) |-> StmtValue(s, i)]
           r == CallThunks(heap, res.vals, values, 1, Len(inp[s]))
       IN /\ heap' = r.heap
          /\ res' = [res EXCEPT !.pc[s] = "done", !.vars = values, !.err = r.err]
    /\ tev' = [op |-> "finish", s |-> s]
    /\ UNCHANGED <<nops, inp, thVars, envVars>>

NextAssign ==
    \/ \E s \in Stmts : Capture(s)
    \/ Rebind
    \/ \E s \in Stmts : Finish(s)

\* the tables after the values vs were written through the thunks own, in order
RECURSIVE WrittenThrough(_, _, _, _)
WrittenThrough(h, own, s, i) ==
    IF i > Len(own) THEN h
    ELSE WrittenThrough([h EXCEPT ![own[i][1]] = rawset(@, KStr(own[i][2]), StmtValue(s, i))],
                        own, s, i + 1)

\* C22: in a multiple assignment with member-expression targets every right-hand
\* value is written to the table and key its own target designated before the
\* right-hand side was evaluated, also when another multiple assignment of the
\* chunk runs while the right-hand side is evaluated.
WritesOwnTargets ==
    tev'.op = "finish" =>
        /\ res'.err = ""
        /\ heap' = WrittenThrough(heap, res.own[tev'.s], tev'.s, 1)
C22_WritesOwnTargets == [][WritesOwnTargets]_vars

(***************************************************************************)
(* Conditions of if, while and repeat (generate).  inp is a statement and  *)
(* the values its condition takes, evaluation after evaluation; once they  *)
(* are used up the condition ends the loop (nil for while, true for        *)
(* repeat).  res counts the executions of the body.                        *)
(***************************************************************************)
MaxConds == 2
CondVals == {Nil, BoolV(FALSE), BoolV(TRUE), NumV(0), NumV(1), NaN, TextV(""), TextV("a"), PlainTab}
CondLists == UNION {[1..n -> CondVals] : n \in 0..MaxConds}
\* the host's ToBoolean, applied by `while (c)` and `!(c)`
ToBoolean(v) == v \notin {Nil, BoolV(FALSE), NumV(0), NaN, TextV("")}
\* utils.ts coerceToBoolean, operators.ts bool
coerceToBoolean(v) == ~(v = BoolV(FALSE) \/ v = Nil)

\* `if (__lua.bool(c)) { body }`
ExecIf(conds) == IF Len(conds) > 0 /\ coerceToBoolean(conds[1]) THEN 1 ELSE 0
\* `while (c) { body }`, from the i-th evaluation of c on
RECURSIVE ExecWhile(_, _, _)
ExecWhile(conds, i, count) ==
    IF i <= Len(conds) /\ ToBoolean(conds[i]) THEN ExecWhile(conds, i + 1, count + 1)
    ELSE count
\* `do { body } while (!(c))`, from the i-th evaluation of c on
RECURSIVE ExecRepeat(_, _, _)
ExecRepeat(conds, i, count) ==
    IF i <= Len(conds) /\ ~ToBoolean(conds[i]) THEN ExecRepeat(conds, i + 1, count + 1)
    ELSE count + 1

InitLoop ==
    /\ inp \in [stmt : {"if", "while", "repeat"}, conds : CondLists]
    /\ res = [done |-> FALSE, count |-> 0]

RunIf ==
    /\ ~res.done /\ inp.stmt = "if"
    /\ res' = [done |-> TRUE, count |-> ExecIf(inp.conds)]
    /\ UNCHANGED <<inp, thVars, envVars, tabVars>>

RunWhile ==
    /\ ~res.done /\ inp.stmt = "while"
    /\ res' = [done |-> TRUE, count |-> ExecWhile(inp.conds, 1, 0)]
    /\ UNCHANGED <<inp, thVars, envVars, tabVars>>

RunRepeat ==
    /\ ~res.done /\ inp.stmt = "repeat"
    /\ res' = [done |-> TRUE, count |-> ExecRepeat(inp.conds, 1, 0)]
    /\ UNCHANGED <<inp, thVars, envVars, tabVars>>

NextLoop == RunIf \/ RunWhile \/ RunRepeat

\* Lua's truthiness: everything but nil and false
LuaTrue(v) == v \notin {Nil, BoolV(FALSE)}
\* how many leading condition values are true (want = TRUE) or false (want = FALSE)
RECURSIVE LeadingRun(_, _, _)
LeadingRun(conds, i, want) ==
    IF i <= Len(conds) /\ LuaTrue(conds[i]) = want THEN 1 + LeadingRun(conds, i + 1, want)
    ELSE 0

\* C23: a while loop runs its body exactly as long as its condition is neither nil
\* nor false, and a repeat loop stops exactly when its condition is neither nil
\* nor false; 0 and the empty string count as true.
C23_LoopsUseLuaTruth ==
    res.done =>
        /\ inp.stmt = "while" => res.count = LeadingRun(inp.conds, 1, TRUE)
        /\ inp.stmt = "repeat" => res.count = LeadingRun(inp.conds, 1, FALSE) + 1

(***************************************************************************)
(* break, goto and labels as emitted (generate, parseBody).  A block whose *)
(* body holds a label or a goto is emitted as                              *)
(*     L<id>: do { switch(label) { case undefined: ...body...              *)
(*                    break; default: continue L<parent> } } while (label) *)
(* a label as `case 'l': label = undefined`, a goto as `label = 'l';       *)
(* continue` and a break as `break`.  The programs are one loop whose body *)
(* holds calls (marks), breaks, labels, gotos and do blocks of these, so   *)
(* blocks nest one deep below the loop.  The run keeps                     *)
(*   label   the chunk's variable label, "" for undefined                  *)
(*   trace   the marks and breaks executed, in order                       *)
(*   comp    how the host statement completed: normal, break, continue,    *)
(*           L0 (continue L0), diverge (MaxFuel passes were not enough)    *)
(*   fuel    the passes through loops and scaffolds still allowed.         *)
(***************************************************************************)
MaxIter == 2
MaxFuel == 6
MaxLoopBody == 3
HasGoto(body) == \E i \in 1..Len(body) : body[i].t \in {"label", "goto"}
\* the position of `case 'l':` in a scaffold, 0 when it has none
CaseOf(body, l) ==
    IF \E i \in 1..Len(body) : body[i].t = "label" /\ body[i].name = l
    THEN CHOOSE i \in 1..Len(body) : body[i].t = "label" /\ body[i].name = l
    ELSE 0
\* setExtraInfo: the block at position i of body gets goto id 0 when neither the
\* body's own block nor an earlier block of it has a goto id
IsL0(body, i) ==
    /\ ~HasGoto(body)
    /\ \A k \in 1..(i - 1) : ~(body[k].t = "do" /\ HasGoto(body[k].body))

RECURSIVE ExecStmts(_, _, _)
RECURSIVE ExecBlock(_, _, _)
RECURSIVE Scaffold(_, _, _)
\* a do block is emitted inline: what completes it abruptly completes the body
AfterDo(body, i, r) == IF r.comp = "normal" THEN ExecStmts(body, i + 1, r) ELSE r
\* what the host does after the switch of a scaffold was left with outcome r
AfterSwitch(node, r, isL0) ==
    IF r.comp \in {"normal", "break", "continue"} \/ (r.comp = "L0" /\ isL0)
    THEN IF r.label # ""
         THEN Scaffold(node, [r EXCEPT !.fuel = @ - 1], isL0)
         ELSE [r EXCEPT !.comp = "normal"]
    ELSE r
\* L<id>: do { switch(label) { ... } } while (label)
Scaffold(node, st, isL0) ==
    IF st.fuel = 0 THEN [st EXCEPT !.comp = "diverge"]
    ELSE IF st.label = "" THEN AfterSwitch(node, ExecStmts(node.body, 1, st), isL0)
    ELSE IF CaseOf(node.body, st.label) # 0
         THEN AfterSwitch(node, ExecStmts(node.body, CaseOf(node.body, st.label), st), isL0)
    \* default: continue L0
    ELSE AfterSwitch(node, [st EXCEPT !.comp = "L0"], isL0)
\* parseBody
ExecBlock(node, st, isL0) ==
    IF HasGoto(node.body) THEN Scaffold(node, st, isL0) ELSE ExecStmts(node.body, 1, st)
\* the statements of a body from the i-th on
ExecStmts(body, i, st) ==
    IF i > Len(body) THEN [st EXCEPT !.comp = "normal"]
    ELSE
      CASE body[i].t = "mark" ->
             ExecStmts(body, i + 1, [st EXCEPT !.trace = Append(@, body[i].name)])
        [] body[i].t = "break" ->
             [st EXCEPT !.trace = Append(@, "break"), !.comp = "break"]
        [] body[i].t = "label" -> ExecStmts(body, i + 1, [st EXCEPT !.label = ""])
        [] body[i].t = "goto" -> [st EXCEPT !.label = body[i].name, !.comp = "continue"]
        [] body[i].t = "do" -> AfterDo(body, i, ExecBlock(body[i], st, IsL0(body, i)))

\* `while (c) { body }` and `do { body } while (!(c))`, c letting MaxIter passes through
RECURSIVE ExecLoop(_, _, _)
AfterBody(node, iter, r) ==
    IF r.comp = "break" THEN [r EXCEPT !.comp = "normal"]
    ELSE IF r.comp \in {"normal", "continue"} THEN ExecLoop(node, iter + 1, r)
    ELSE r
ExecLoop(node, iter, st) ==
    IF iter > MaxIter THEN [st EXCEPT !.comp = "normal"]
    ELSE AfterBody(node, iter, ExecBlock(node, st, TRUE))

\* `continue L0` needs an enclosing statement labelled L0: the loop body's scaffold,
\* or the do block's own
SyntaxOk(loop) ==
    \A i \in 1..Len(loop.body) :
        (loop.body[i].t = "do" /\ HasGoto(loop.body[i].body)) =>
            HasGoto(loop.body) \/ IsL0(loop.body, i)

LoopLeaves ==
    {Stmt("mark", "a", <<>>), Stmt("break", "", <<>>), Stmt("label", "l", <<>>),
     Stmt("goto", "l", <<>>)}
DoBlocks == {Stmt("do", "", b) : b \in UNION {[1..n -> LoopLeaves] : n \in 1..MaxBody}}
LoopBodies == UNION {[1..n -> LoopLeaves \cup DoBlocks] : n \in 1..MaxLoopBody}
RunStart == [label |-> "", trace |-> <<>>, comp |-> "normal", fuel |-> MaxFuel]

\* the loops parse accepts
InitBreak ==
    /\ inp \in {Stmt(t, "", b) : t \in {"while", "repeat"}, b \in LoopBodies}
    /\ checkGoto(Stmt("chunk", "", <<inp>>)) = ""
    /\ res = [done |-> FALSE, out |-> RunStart]

\* the chunk is compiled by the host and run
RunLoop ==
    /\ ~res.done /\ SyntaxOk(inp)
    /\ res' = [done |-> TRUE, out |-> ExecLoop(inp, 1, RunStart)]
    /\ UNCHANGED <<inp, thVars, envVars, tabVars>>

\* new Function(...) throws: SyntaxError: Undefined label 'L0'
RunSyntaxError ==
    /\ ~res.done /\ ~SyntaxOk(inp)
    /\ res' = [done |-> TRUE, out |-> [RunStart EXCEPT !.comp = "syntax"]]
    /\ UNCHANGED <<inp, thVars, envVars, tabVars>>

NextBreak == RunLoop \/ RunSyntaxError

\* C24: break ends the innermost enclosing loop in every block shape: once a break
\* has executed in the loop body, no further statement of the body runs and no
\* further iteration starts, also when the body or a block in it holds labels
\* or gotos.
C24_BreakEndsLoop ==
    res.done =>
        \A i \in 1..Len(res.out.trace) : res.out.trace[i] = "break" => i = Len(res.out.trace)

(***************************************************************************)
(* setExtraInfo and the goto footer of parseBody.  heap is the module's    *)
(* map gotoToParentGoto, a set of pairs <<goto id, parent id>>, which      *)
(* lives as long as the process; inp is the source being parsed.  The walk *)
(* keeps                                                                   *)
(*   id      gotoID, the next goto id of this parse                        *)
(*   map     gotoToParentGoto                                              *)
(*   blocks  nodeToGoto for this source: the blocks given a goto id, in    *)
(*           the order of the walk, each with its type.                    *)
(* Of the emitted text only the footers depend on the map: the footer of a *)
(* block with goto id g holds `break; default: continue L<p>` when the map *)
(* has a parent p for g.                                                   *)
(***************************************************************************)
MaxSource == 2
MapGet(m, g) == {e[2] : e \in {x \in m : x[1] = g}}
MapSet(m, g, p) == {x \in m : x[1] # g} \cup {<<g, p>>}

RECURSIVE visitProp(_, _, _)
RECURSIVE VisitBody(_, _, _, _)
\* lines 732-741: the block gets the next goto id; a parent is recorded unless the
\* block is a chunk or a function
SetGoto(node, prevGoto, st) ==
    [id |-> st.id + 1,
     map |-> IF node.t \in {"chunk", "function"} THEN st.map
             ELSE MapSet(st.map, st.id, prevGoto),
     blocks |-> Append(st.blocks, [id |-> st.id, t |-> node.t])]
visitProp(node, prevGoto, st) ==
    IF isBlock(node) /\ HasGoto(node.body)
    THEN VisitBody(node.body, 1, st.id, SetGoto(node, prevGoto, st))
    ELSE VisitBody(node.body, 1, prevGoto, st)
\* visitNode: the children in source order
VisitBody(body, i, nextGoto, st) ==
    IF i > Len(body) THEN st
    ELSE VisitBody(body, i + 1, nextGoto, visitProp(body[i], nextGoto, st))
setExtraInfo(m, ast) == visitProp(ast, 0, [id |-> 0, map |-> m, blocks |-> <<>>])

\* parseBody: the footer of every block with a goto id, by the map as setExtraInfo
\* left it
Footers(st) ==
    [i \in 1..Len(st.blocks) |->
        [id |-> st.blocks[i].id, t |-> st.blocks[i].t,
         parent |-> MapGet(st.map, st.blocks[i].id)]]

Sources ==
    {c \in {Stmt("chunk", "", b) : b \in UNION {[1..n -> Leaves \cup Blocks] : n \in 0..MaxSource}} :
        checkGoto(c) = ""}
NoOutput == [done |-> FALSE, out |-> <<>>]

\* the process starts with empty maps
InitParse ==
    /\ heap = {}
    /\ inp \in Sources
    /\ res = NoOutput
    /\ tev = NoTev
    /\ nops = 0

\* parse(data): luaparse.parse, checkGoto, setExtraInfo, generate
ParseSource ==
    /\ ~res.done
    /\ heap' = setExtraInfo(heap, inp).map
    /\ res' = [done |-> TRUE, out |-> Footers(setExtraInfo(heap, inp))]
    /\ UNCHANGED <<inp, tev, nops, thVars, envVars>>

\* the next source handed to parse in the same process
NextSource(src) ==
    /\ res.done
    /\ inp' = src
    /\ res' = NoOutput
    /\ UNCHANGED <<heap, tev, nops, thVars, envVars>>

NextParse == ParseSource \/ \E src \in Sources : NextSource(src)

\* C28: parse is history-free: what is emitted for a source depends only on that
\* source, not on the sources parsed earlier in the process; in particular the
\* goto scope of a chunk or of a function body never has a parent link, whatever
\* gotoToParentGoto holds from earlier parses.
C28_ParseHistoryFree ==
    res.done =>
        /\ res.out = Footers(setExtraInfo({}, inp))
        /\ \A i \in 1..Len(res.out) :
             res.out[i].t \in {"chunk", "function"} => res.out[i].parent = {}

(***************************************************************************)
(* require (getLibPackage).  heap holds, for the module names of the       *)
(* model,                                                                  *)
(*   loaded    package.loaded: the stored value, Absent for none           *)
(*   preload   package.preload: a loader is written as the value it        *)
(*             returns (Nil for a loader without return), Absent for none  *)
(*   files     what the chunk of the module's file returns under the       *)
(*             host's cfg.fileExists / cfg.loadFile, Absent for no file.   *)
(* tev is the last call of require: its name, its outcome, and the number  *)
(* of searchers and of loaders it called.                                  *)
(***************************************************************************)
ModNames == {"m", "n"}
ModVals == {Nil, BoolV(FALSE), BoolV(TRUE), TabV(TabD)}
ReqEv(op, name, out, searched, ran) ==
    [op |-> op, name |-> name, out |-> out, searched |-> searched, ran |-> ran]
NotFoundMsg(name) == "Module '" \o name \o "' not found!"

\* lines 123-127: the loader has returned result
LoadedWith(h, name, result, searched) ==
    LET module == IF result = Nil THEN BoolV(TRUE) ELSE result IN
      [heap |-> [h EXCEPT !.loaded[name] = module],
       ev |-> ReqEv("require", name, Returned(<<module>>), searched, 1)]

\* _require(modname)
require(h, name) ==
    IF h.loaded[name] # Absent /\ ToBoolean(h.loaded[name])
    THEN [heap |-> h, ev |-> ReqEv("require", name, Returned(<<h.loaded[name]>>), 0, 0)]
    \* the first searcher: package.preload
    ELSE IF h.preload[name] # Absent THEN LoadedWith(h, name, h.preload[name], 1)
    \* the second searcher: package.path
    ELSE IF h.files[name] # Absent THEN LoadedWith(h, name, h.files[name], 2)
    ELSE [heap |-> h,
          ev |-> ReqEv("require", name, Raised(LuaError(NotFoundMsg(name))), 2, 0)]

\* createEnv with a host configuration: nothing of the model's names is loaded
InitRequire ==
    /\ heap \in [loaded : {[n \in ModNames |-> Absent]},
                 preload : {[n \in ModNames |-> Absent]},
                 files : [ModNames -> {Absent, TabV(TabD)}]]
    /\ tev = ReqEv("init", "", Returned(<<>>), 0, 0)
    /\ nops = 0

\* `package.preload[name] = function() return v end`
SetPreload(name, v) ==
    /\ heap' = [heap EXCEPT !.preload[name] = v]
    /\ tev' = ReqEv("preload", name, Returned(<<>>), 0, 0)
    /\ UNCHANGED <<nops, notTable>>

\* `require(name)`
Require(name) ==
    /\ heap' = require(heap, name).heap
    /\ tev' = require(heap, name).ev
    /\ UNCHANGED <<nops, notTable>>

NextRequire ==
    \/ \E name \in ModNames, v \in ModVals : SetPreload(name, v)
    \/ \E name \in ModNames : Require(name)

\* C30: require loads a module at most once per environment: after require(name)
\* has returned, every later require(name) returns the same stored value
\* without calling any searcher or loader again, whatever value the module
\* returned (a table, true for no return value, or false).
LoadsAtMostOnce ==
    (tev'.op = "require" /\ heap.loaded[tev'.name] # Absent) =>
        /\ tev'.out = Returned(<<heap.loaded[tev'.name]>>)
        /\ tev'.searched = 0 /\ tev'.ran = 0
        /\ heap' = heap
EnvIdle ==
    /\ envG = <<>>
    /\ envLoaded = <<>>
    /\ libs = <<>>
    /\ randomSeed = 1
    /\ obs = <<>>

TableIdle ==
    /\ heap = <<>>
    /\ tev = NoTev
    /\ nops = 0

FunIdle ==
    /\ inp = <<>>
    /\ res = <<>>

InitT == InitThread /\ EnvIdle /\ TableIdle /\ FunIdle
SpecThread == InitT /\ [][NextThread]_vars

InitE == InitThread /\ InitEnv /\ TableIdle /\ FunIdle
SpecEnv == InitE /\ [][NextEnv]_vars

InitM == InitThread /\ EnvIdle /\ InitTable /\ FunIdle
SpecTable == InitM /\ [][NextTable]_vars

InitA == InitThread /\ EnvIdle /\ InitArr /\ FunIdle
SpecArr == InitA /\ [][NextArr]_vars

InitP == InitThread /\ EnvIdle /\ TableIdle /\ InitPairs
SpecPairs == InitP /\ [][NextPairs]_vars

InitO == InitThread /\ EnvIdle /\ TableIdle /\ InitOps
SpecOps == InitO /\ [][NextOps]_vars

InitC == InitThread /\ EnvIdle /\ TableIdle /\ InitCall
SpecCall == InitC /\ [][NextCall]_vars

InitS == InitThread /\ EnvIdle /\ InitScope /\ FunIdle
SpecScope == InitS /\ [][NextScope]_vars

InitG == InitThread /\ EnvIdle /\ TableIdle /\ InitGoto
SpecGoto == InitG /\ [][NextGoto]_vars

InitV == InitThread /\ EnvIdle /\ InitAssign
SpecAssign == InitV /\ [][NextAssign]_vars

InitL == InitThread /\ EnvIdle /\ TableIdle /\ InitLoop
SpecLoop == InitL /\ [][NextLoop]_vars

InitB == InitThread /\ EnvIdle /\ TableIdle /\ InitBreak
SpecBreak == InitB /\ [][NextBreak]_vars

InitX == InitThread /\ EnvIdle /\ InitParse
SpecParse == InitX /\ [][NextParse]_vars

InitR == InitThread /\ EnvIdle /\ FunIdle /\ InitRequire
SpecRequire == InitR /\ [][NextRequire]_vars


====
